---- MODULE Spec2Model ----
(***************************************************************************)
(* Release assessment portal: the request store (assessment_requests and   *)
(* its row-level policies), the request detail view (RequestDetail) and    *)
(* the submission form (NewAssessment).                                    *)
(*                                                                         *)
(* Strings that are only compared for (in)equality are TLA+ strings.       *)
(* Release version labels are compared with <, >= in the source, so they   *)
(* are sequences of UTF-16 code units compared as JavaScript compares      *)
(* strings.  title and description are represented by their length         *)
(* (0 is the empty string, stored as null by `title || null`).             *)
(* Nullable timestamps are naturals with 0 for null.                       *)
(***************************************************************************)
EXTENDS Integers, Sequences, FiniteSets, TLC

VARIABLES
    \* ---- backend store -------------------------------------------------
    requests,       \* assessment_requests: sequence of rows, id = index
    \* ---- identity ------------------------------------------------------
    user,           \* useAuth().user: the authenticated identity, or NoUser
    \* ---- RequestDetail component state ---------------------------------
    viewId,         \* useParams().id
    mounted,        \* the detail view is on screen
    request,        \* useState<AssessmentRequest | null>
    loading,        \* useState(true)
    error,          \* useState('')
    toast,          \* useState<string | null>
    cancelConfirm,  \* useState(false)
    canceling,      \* useState(false)
    navPending,     \* setTimeout(() => navigate('/dashboard'), 1500) is armed
    fetchPc,        \* position of fetchData between its awaits
    fetchRes,       \* the response of the request query, travelling to the client
    subState,       \* the channel: "none", "joining", "active"
    notifs,         \* UPDATE payloads queued on the channel (FIFO)
    cancelPc,       \* position of handleCancel between its awaits
    cancelId,       \* the request.id handleCancel put in .eq('id', ...)
    \* ---- NewAssessment component state ---------------------------------
    formMounted,    \* the submission form is on screen
    releases,       \* useState<Release[]>: sequence of release ids
    fLoading,       \* useState(false) `loading`
    submitting,     \* useState(false)
    showConfirm,    \* useState(false)
    errors,         \* useState<FormErrors>: key -> message, "" when absent
    attachments,    \* useState<File[]>
    fToast,         \* useState<{message,type} | null>, by type
    formData,       \* useState<FormData>
    confirmPc,      \* position of handleConfirm between its awaits
    payload,        \* the row handed to insert()
    usedFiles,      \* the `attachments` handleConfirm closed over
    fNavPending,    \* the ids of armed setTimeout(() => navigate(`/request/${id}`), 1500)
    newId,          \* data.id of the inserted request, inside handleConfirm
    fileIdx,        \* position of `for (const file of attachments)`
    calls,          \* the backend calls the running handleConfirm has made
    \* ---- attachments: storage bucket and table ------------------------
    blobs,          \* storage bucket 'attachments': the paths that hold an object
    attRows,        \* attachments table: sequence of rows
    \* ---- Dashboard component state -------------------------------------
    dMounted,       \* the listing is on screen
    dRequests,      \* useState<AssessmentRequest[]>([])
    dLoading,       \* useState(true)
    dError,         \* useState('')
    searchTerm,     \* useState('')
    statusFilter,   \* useState<string>('all')
    dFetches,       \* the fetchData() calls that are between their awaits
    dSubState,      \* the channel 'assessment_requests': "none", "joining", "active"
    dEvents,        \* change events queued on the channel
    \* ---- assessment_results and the Results component -------------------
    resultRows,     \* assessment_results: sequence of rows, each a JSON object
    rMounted,       \* the results view is on screen
    rId,            \* useParams().id
    rRequest,       \* useState<AssessmentRequest | null>
    rResults,       \* useState<AssessmentResults | null>
    rLoading,       \* useState(true)
    rError,         \* useState('')
    rFetches,       \* the fetchData() calls that are between their awaits
    rToast,         \* useState<string | null>
    locale,         \* the environment's locale and time zone
    download,       \* the file the last handleDownload handed to the browser
    \* ---- AuthProvider and the client's subscriptions --------------------
    authMounted,    \* the AuthProvider is mounted
    channels,       \* the subscriptions that are open (subscribed, not unsubscribed)
    session,        \* the user of the auth client's current session, or NoUser
    authLoading,    \* AuthProvider useState(true) `loading`
    authEvents,     \* session-change notifications not yet handed to the callback
    getSessionPc,   \* position of the effect's getSession(), with what it read
    signOutPc,      \* position of Layout.handleSignOut between its awaits
    \* ---- Login component state -----------------------------------------
    loginMounted,   \* the login form is on screen
    email,          \* useState('')
    password,       \* useState(''): a sequence of characters
    confirmPassword, \* useState('')
    loginError,     \* useState('') `error`
    loginLoading,   \* useState(false) `loading`
    isSignup,       \* useState(false)
    loginPc,        \* position of Login.handleSubmit between its awaits
    \* ---- row-level security --------------------------------------------
    access          \* the last decision of a row-level policy, NoAccess before any

detailVars == <<viewId, mounted, request, loading, error, toast, cancelConfirm,
                canceling, navPending, fetchPc, fetchRes, subState, notifs, cancelPc,
                cancelId>>
formVars == <<formMounted, releases, fLoading, submitting, showConfirm, errors,
              attachments, fToast, formData, confirmPc, payload, usedFiles, fNavPending>>
\* the form's rendered state
formUi == <<formMounted, releases, fLoading, submitting, showConfirm, errors,
            attachments, fToast, formData>>
loopVars == <<newId, fileIdx, calls, blobs, attRows>>
dashUi == <<dMounted, dRequests, dLoading, dError, searchTerm, statusFilter,
            dFetches, dSubState>>
dashVars == <<dashUi, dEvents>>
resultsVars == <<resultRows, rMounted, rId, rRequest, rResults, rLoading, rError,
                 rFetches, rToast, locale, download>>
authVars == <<session, authLoading, authEvents, getSessionPc, signOutPc>>
loginVars == <<loginMounted, email, password, confirmPassword, loginError,
               loginLoading, isSignup, loginPc>>
sessionVars == <<authMounted, channels, authVars, loginVars, access>>
pageVars == <<dashVars, resultsVars, sessionVars>>
\* what the AuthProvider, the Layout's sign-out and the login form leave alone
dataVars == <<requests, detailVars, formVars, loopVars, resultsVars, access>>
vars == <<requests, user, detailVars, formVars, loopVars, pageVars>>

(***************************************************************************)
(* Bounds of the model                                                     *)
(***************************************************************************)
MaxNotifs == 3      \* UPDATE payloads queued on one channel
MaxFiles == 6       \* files held by the form
MaxRequests == 1    \* rows one form instance is followed for

(***************************************************************************)
(* Values                                                                  *)
(***************************************************************************)
Users == {"u1", "u2"}
\* no row-level decision has been taken
NoAccess == [table |-> "none"]
NoUser == "none"
Null == "null"

Min(a, b) == IF a < b THEN a ELSE b

\* RequestStatus
StatusValues == {"Queued", "Running", "Completed", "Failed"}
ActiveStatuses == {"Queued", "Running"}
TerminalStatuses == {"Completed", "Failed"}

\* ReportType
ReportTypes == {"API", "Database", "API + Database"}

\* position along the lifecycle Queued -> Running -> {Completed, Failed}
StatusRank(s) == CASE s = "Queued" -> 0 [] s = "Running" -> 1 [] OTHER -> 2

(***************************************************************************)
(* releases table: the rows used here, id -> version label, is_active      *)
(***************************************************************************)
ReleaseVersion ==
    [r1 |-> <<69, 66, 50, 48>>,             \* "EB20"
     r2 |-> <<69, 66, 50, 49>>,             \* "EB21"
     r3 |-> <<69, 66, 50, 53, 46, 49>>,     \* "EB25.1"
     r4 |-> <<69, 66, 57>>]                 \* "EB9"
ReleaseActive == [r1 |-> TRUE, r2 |-> TRUE, r3 |-> FALSE, r4 |-> FALSE]
ReleaseIds == DOMAIN ReleaseVersion

\* JavaScript a < b on strings: lexicographic on code units, a proper prefix is smaller
RECURSIVE StrLess(_, _)
StrLess(a, b) ==
    IF b = <<>> THEN FALSE
    ELSE IF a = <<>> THEN TRUE
    ELSE IF Head(a) # Head(b) THEN Head(a) < Head(b)
    ELSE StrLess(Tail(a), Tail(b))

StrGreater(a, b) == StrLess(b, a)
StrGreaterEq(a, b) == ~StrLess(a, b)

(***************************************************************************)
(* assessment_requests: row-level policies and column defaults             *)
(***************************************************************************)
\* "Users can read own requests": USING (auth.uid() = user_id)
SelectPolicy(uid, r) == uid = r.user_id

\* "Users can update own requests": USING / WITH CHECK (auth.uid() = user_id)
UpdatePolicy(uid, r) == uid = r.user_id

\* the callback of onAuthStateChange: setUser(session user) or setUser(null); it
\* runs while the subscription is open
OnAuthStateChange(chs, u, sessionUser) ==
    IF \E k \in DOMAIN chs : chs[k].view = "auth" THEN sessionUser ELSE u

\* an insert policy that lets every insert through
InsertPolicyOpen(uid, r) == TRUE

\* "Users can create requests": WITH CHECK (auth.uid() = user_id)
InsertPolicy(uid, r) == uid # NoUser /\ uid = r.user_id

\* NOT NULL, CHECK and REFERENCES constraints of the table
TableConstraints(p) ==
    /\ p.report_type \in ReportTypes
    /\ p.current_release_id \in ReleaseIds
    /\ p.target_release_id \in ReleaseIds

\* the row an INSERT of payload p creates: the omitted columns take their defaults
NewRow(p, id) ==
    [id |-> id,
     user_id |-> p.user_id,
     report_type |-> p.report_type,
     current_release_id |-> p.current_release_id,
     target_release_id |-> p.target_release_id,
     environment |-> p.environment,
     title |-> p.title,
     description |-> p.description,
     status |-> "Queued",
     error_message |-> Null,
     email_notification |-> p.email_notification,
     inapp_notification |-> p.inapp_notification,
     created_at |-> id,
     completed_at |-> 0]

(***************************************************************************)
(* The realtime feed: an UPDATE of a row is published to a joined channel  *)
(* filtered on id=eq.<viewId>, when the subscriber may read the row        *)
(***************************************************************************)
Publish(q, r) ==
    IF subState = "active" /\ r.id = viewId /\ SelectPolicy(user, r)
    THEN Append(q, r)
    ELSE q

\* the listing's channel takes every event of the table ({ event: '*' }) on a
\* row the subscriber may read
DashPublish(n, r) ==
    IF dSubState = "active" /\ SelectPolicy(user, r) THEN n + 1 ELSE n

(***************************************************************************)
(* RequestDetail                                                           *)
(***************************************************************************)
NoRequest == [id |-> 0]
NoResponse == [kind |-> "none"]

\* the useEffect body at mount: fetchData() runs to its first await, then the
\* channel is subscribed
DetailMounted ==
    /\ mounted = TRUE
    /\ request = NoRequest
    /\ loading = TRUE
    /\ error = ""
    /\ toast = Null
    /\ cancelConfirm = FALSE
    /\ canceling = FALSE
    /\ navPending = FALSE
    /\ fetchPc = "reqSent"
    /\ fetchRes = NoResponse
    /\ subState = "joining"
    /\ notifs = <<>>
    /\ cancelPc = "idle"
    /\ cancelId = 0

\* the backend runs .from('assessment_requests').select('*').eq('id', id).single()
FetchRequestRead ==
    /\ fetchPc = "reqSent"
    /\ \E ok \in BOOLEAN :
         fetchRes' = IF ok /\ viewId \in DOMAIN requests
                          /\ SelectPolicy(user, requests[viewId])
                     THEN [kind |-> "row", row |-> requests[viewId]]
                     ELSE [kind |-> "error"]
    /\ fetchPc' = "reqRead"
    /\ UNCHANGED <<requests, user, viewId, mounted, request, loading, error, toast,
                   cancelConfirm, canceling, navPending, subState, notifs, cancelPc,
                   cancelId, formVars, loopVars, pageVars>>

\* fetchData resumes after the first await: throw requestError, or setRequest
FetchRequestResponse ==
    /\ mounted
    /\ fetchPc = "reqRead"
    /\ IF fetchRes.kind = "row"
       THEN /\ request' = fetchRes.row
            /\ fetchPc' = "relSent"
            /\ UNCHANGED <<error, loading>>
       ELSE /\ error' = "Failed to load request"
            /\ loading' = FALSE
            /\ fetchPc' = "done"
            /\ UNCHANGED request
    /\ fetchRes' = NoResponse
    /\ UNCHANGED <<requests, user, viewId, mounted, toast, cancelConfirm, canceling,
                   navPending, subState, notifs, cancelPc, cancelId, formVars, loopVars, pageVars>>

\* fetchData resumes after the releases query
FetchReleasesResponse ==
    /\ mounted
    /\ fetchPc = "relSent"
    /\ \E ok \in BOOLEAN :
         IF ok
         THEN /\ fetchPc' = "attSent"
              /\ UNCHANGED <<error, loading>>
         ELSE /\ error' = "Failed to load request"
              /\ loading' = FALSE
              /\ fetchPc' = "done"
    /\ UNCHANGED <<requests, user, viewId, mounted, request, toast, cancelConfirm,
                   canceling, navPending, fetchRes, subState, notifs, cancelPc, cancelId,
                   formVars, loopVars, pageVars>>

\* fetchData resumes after the attachments query; finally { setLoading(false) }
FetchAttachmentsResponse ==
    /\ mounted
    /\ fetchPc = "attSent"
    /\ \E ok \in BOOLEAN :
         error' = IF ok THEN error ELSE "Failed to load request"
    /\ loading' = FALSE
    /\ fetchPc' = "done"
    /\ UNCHANGED <<requests, user, viewId, mounted, request, toast, cancelConfirm,
                   canceling, navPending, fetchRes, subState, notifs, cancelPc, cancelId,
                   formVars, loopVars, pageVars>>

\* .subscribe() has been acknowledged: UPDATEs committed from now on are published
SubscribeJoined ==
    /\ mounted
    /\ subState = "joining"
    /\ subState' = "active"
    /\ UNCHANGED <<requests, user, viewId, mounted, request, loading, error, toast,
                   cancelConfirm, canceling, navPending, fetchPc, fetchRes, notifs,
                   cancelPc, cancelId, formVars, loopVars, pageVars>>

\* the channel callback: setRequest(payload.new)
NotifDeliver ==
    /\ mounted
    /\ notifs # <<>>
    /\ request' = Head(notifs)
    /\ notifs' = Tail(notifs)
    /\ UNCHANGED <<requests, user, viewId, mounted, loading, error, toast, cancelConfirm,
                   canceling, navPending, fetchPc, fetchRes, subState, cancelPc, cancelId,
                   formVars, loopVars, pageVars>>

NoErrors == [reportType |-> "", currentReleaseId |-> "", targetReleaseId |-> "",
             title |-> "", description |-> "", attachments |-> ""]

InitialFormData ==
    [reportType |-> "", currentReleaseId |-> "", targetReleaseId |-> "",
     title |-> 0, environment |-> "Not Applicable", description |-> 0,
     emailNotification |-> TRUE, inappNotification |-> TRUE]

\* the subscriptions a view opens
DetailChannel(id) == [view |-> "detail", scope |-> id]
ListingChannel == [view |-> "listing", scope |-> 0]
AuthChannel == [view |-> "auth", scope |-> 0]

\* .subscribe() / onAuthStateChange(): one more open subscription
Subscribed(chs, c) == Append(chs, c)

\* subscription.unsubscribe(): the subscription is released
RECURSIVE Unsubscribed(_, _)
Unsubscribed(chs, c) ==
    IF chs = <<>> THEN <<>>
    ELSE IF Head(chs) = c THEN Tail(chs)
    ELSE <<Head(chs)>> \o Unsubscribed(Tail(chs), c)

\* a cleanup that leaves the subscription open
DetailCleanupKeeps(chs, id) == chs

\* return () => { subscription.unsubscribe(); } of RequestDetail's effect
DetailCleanup(chs, id) == Unsubscribed(chs, DetailChannel(id))

\* return () => { subscription.unsubscribe(); } of Dashboard's effect
ListingCleanup(chs) == Unsubscribed(chs, ListingChannel)

\* return () => subscription?.unsubscribe() of AuthProvider's effect
AuthCleanup(chs) == Unsubscribed(chs, AuthChannel)

\* a fetchData() of the listing at its first await
NewFetch == [pc |-> "relSent", res |-> NoResponse]

\* the Dashboard route is entered: first render and effect
MountDashboard ==
    /\ dMounted' = TRUE
    /\ dRequests' = <<>>
    /\ dLoading' = TRUE
    /\ dError' = ""
    /\ searchTerm' = <<>>
    /\ statusFilter' = "all"
    /\ dFetches' = <<NewFetch>>
    /\ dSubState' = "joining"
    /\ dEvents' = 0

\* the Dashboard route is left: the effect cleanup has run, the state is gone
UnmountDashboard ==
    /\ dMounted' = FALSE
    /\ dRequests' = <<>>
    /\ dLoading' = FALSE
    /\ dError' = ""
    /\ searchTerm' = <<>>
    /\ statusFilter' = "all"
    /\ dFetches' = <<>>
    /\ dSubState' = "none"
    /\ dEvents' = 0

\* the NewAssessment route is left: the state is gone; a running handleConfirm
\* and an armed timer go on
UnmountForm ==
    /\ formMounted' = FALSE
    /\ releases' = <<>>
    /\ fLoading' = FALSE
    /\ submitting' = FALSE
    /\ showConfirm' = FALSE
    /\ errors' = NoErrors
    /\ attachments' = <<>>
    /\ fToast' = Null
    /\ formData' = InitialFormData

\* the Login route is entered: first render
MountLogin ==
    /\ loginMounted' = TRUE
    /\ email' = ""
    /\ password' = <<>>
    /\ confirmPassword' = <<>>
    /\ loginError' = ""
    /\ loginLoading' = FALSE
    /\ isSignup' = FALSE
    /\ loginPc' = "idle"

\* the RequestDetail route is entered with this id: first render and effect
MountDetail(id) ==
    /\ viewId' = id
    /\ mounted' = TRUE
    /\ request' = NoRequest
    /\ loading' = TRUE
    /\ error' = ""
    /\ toast' = Null
    /\ cancelConfirm' = FALSE
    /\ canceling' = FALSE
    /\ navPending' = FALSE
    /\ fetchPc' = "reqSent"
    /\ fetchRes' = NoResponse
    /\ subState' = "joining"
    /\ notifs' = <<>>

\* the RequestDetail route is left: the effect cleanup has run, the state is gone
UnmountDetail ==
    /\ mounted' = FALSE
    /\ request' = NoRequest
    /\ loading' = FALSE
    /\ error' = ""
    /\ toast' = Null
    /\ cancelConfirm' = FALSE
    /\ canceling' = FALSE
    /\ navPending' = FALSE
    /\ fetchPc' = "done"
    /\ fetchRes' = NoResponse
    /\ subState' = "none"
    /\ notifs' = <<>>
    /\ cancelPc' = IF cancelPc = "sent" THEN "sent" ELSE "idle"

\* what the component returns: the skeleton while loading, the error card when
\* error || !request, the page otherwise
MainRender == mounted /\ ~loading /\ error = "" /\ request # NoRequest

\* {(request.status === 'Queued' || request.status === 'Running') && <button>Cancel}
CancelButtonRendered == MainRender /\ request.status \in ActiveStatuses

\* {cancelConfirm && <modal> ... <button onClick={handleCancel}>Cancel Request}
CancelModalRendered == MainRender /\ cancelConfirm

\* onClick={() => setCancelConfirm(true)}
OpenCancelConfirm ==
    /\ CancelButtonRendered
    /\ cancelConfirm' = TRUE
    /\ UNCHANGED <<requests, user, viewId, mounted, request, loading, error, toast,
                   canceling, navPending, fetchPc, fetchRes, subState, notifs, cancelPc,
                   cancelId, formVars, loopVars, pageVars>>

\* "Keep Request": onClick={() => setCancelConfirm(false)}
KeepRequest ==
    /\ CancelModalRendered
    /\ cancelConfirm' = FALSE
    /\ UNCHANGED <<requests, user, viewId, mounted, request, loading, error, toast,
                   canceling, navPending, fetchPc, fetchRes, subState, notifs, cancelPc,
                   cancelId, formVars, loopVars, pageVars>>

\* handleCancel up to its await: the button is disabled while canceling
HandleCancel ==
    /\ CancelModalRendered
    /\ ~canceling
    /\ cancelPc = "idle"
    /\ Len(notifs) < MaxNotifs
    /\ canceling' = TRUE
    /\ cancelPc' = "sent"
    /\ cancelId' = request.id
    /\ UNCHANGED <<requests, user, viewId, mounted, request, loading, error, toast,
                   cancelConfirm, navPending, fetchPc, fetchRes, subState, notifs,
                   formVars, loopVars, pageVars>>

\* a cancellation that also stamps the row as finished
CancelUpdateStampsCompletion(r) ==
    [r EXCEPT !.status = "Failed", !.error_message = "Canceled by user",
              !.completed_at = 1]

\* .update({ status: 'Failed', error_message: 'Canceled by user' })
CancelUpdate(r) == [r EXCEPT !.status = "Failed", !.error_message = "Canceled by user"]

\* the rows .update(...).eq('id', request.id) touches, under the update policy
CancelMatches(uid, r, id) == r.id = id /\ UpdatePolicy(uid, r)

\* the backend runs the update, or the call fails
ServerCancelUpdate ==
    /\ cancelPc = "sent"
    /\ \E ok \in BOOLEAN :
         IF ok
         THEN /\ IF cancelId \in DOMAIN requests
                    /\ CancelMatches(user, requests[cancelId], cancelId)
                 THEN /\ requests' = [requests EXCEPT ![cancelId] = CancelUpdate(@)]
                      /\ notifs' = Publish(notifs, requests'[cancelId])
                      /\ dEvents' = DashPublish(dEvents, requests'[cancelId])
                 ELSE UNCHANGED <<requests, notifs, dEvents>>
              /\ cancelPc' = IF mounted THEN "ok" ELSE "idle"
         ELSE /\ cancelPc' = IF mounted THEN "err" ELSE "idle"
              /\ UNCHANGED <<requests, notifs, dEvents>>
    /\ UNCHANGED <<user, viewId, mounted, request, loading, error, toast, cancelConfirm,
                   canceling, navPending, fetchPc, fetchRes, subState, cancelId, formVars, loopVars,
                   dashUi, resultsVars, sessionVars>>

\* handleCancel resumes: throw error / toast and timer; finally
HandleCancelResponse ==
    /\ mounted
    /\ cancelPc \in {"ok", "err"}
    /\ IF cancelPc = "ok"
       THEN /\ toast' = "Request canceled"
            /\ navPending' = TRUE
       ELSE /\ toast' = "Failed to cancel request"
            /\ UNCHANGED navPending
    /\ canceling' = FALSE
    /\ cancelConfirm' = FALSE
    /\ cancelPc' = "idle"
    /\ UNCHANGED <<requests, user, viewId, mounted, request, loading, error, fetchPc,
                   fetchRes, subState, notifs, cancelId, formVars, loopVars, pageVars>>

\* the view is torn down: the effect cleanup unsubscribes, the state is gone
DetailUnmounted ==
    /\ mounted = FALSE
    /\ request = NoRequest
    /\ loading = FALSE
    /\ error = ""
    /\ toast = Null
    /\ cancelConfirm = FALSE
    /\ canceling = FALSE
    /\ navPending = FALSE
    /\ fetchPc = "done"
    /\ fetchRes = NoResponse
    /\ subState = "none"
    /\ notifs = <<>>

\* the timer armed by handleCancel fires: navigate('/dashboard')
NavigateDashboard ==
    /\ mounted
    /\ navPending
    /\ UnmountDetail
    /\ MountDashboard
    /\ channels' = Subscribed(DetailCleanup(channels, viewId), ListingChannel)
    /\ UNCHANGED <<requests, user, viewId, cancelId, formVars, loopVars, resultsVars,
                   authMounted, authVars, loginVars, access>>

\* the route id changes while the detail view stays mounted (history navigation
\* between two requests): the effect's cleanup runs, then the effect again with
\* the new id; followed when no fetch and no cancellation is in flight
DetailRouteChange ==
    /\ mounted
    /\ fetchPc = "done"
    /\ cancelPc = "idle"
    /\ \E id \in DOMAIN requests :
         /\ id # viewId
         /\ viewId' = id
         /\ channels' = Subscribed(DetailCleanup(channels, viewId), DetailChannel(id))
    /\ loading' = TRUE
    /\ error' = ""
    /\ fetchPc' = "reqSent"
    /\ fetchRes' = NoResponse
    /\ subState' = "joining"
    /\ notifs' = <<>>
    /\ UNCHANGED <<requests, user, mounted, request, toast, cancelConfirm, canceling,
                   navPending, cancelPc, cancelId, formVars, loopVars, dashVars,
                   resultsVars, authMounted, authVars, loginVars, access>>

\* Layout's link to /dashboard on the detail page
DetailLeave ==
    /\ mounted
    /\ UnmountDetail
    /\ MountDashboard
    /\ channels' = Subscribed(DetailCleanup(channels, viewId), ListingChannel)
    /\ UNCHANGED <<requests, user, viewId, cancelId, formVars, loopVars, resultsVars,
                   authMounted, authVars, loginVars, access>>

\* the application is torn down: every mounted component's effect cleanup runs
AppTeardown ==
    /\ authMounted
    /\ authMounted' = FALSE
    /\ UnmountDetail
    /\ UnmountDashboard
    /\ UnmountForm
    /\ channels' = AuthCleanup(
            IF mounted THEN DetailCleanup(channels, viewId)
            ELSE IF dMounted THEN ListingCleanup(channels)
            ELSE channels)
    /\ UNCHANGED <<requests, user, viewId, cancelId, confirmPc, payload, usedFiles,
                   fNavPending, loopVars, resultsVars, authVars, loginVars, access>>

(***************************************************************************)
(* NewAssessment                                                           *)
(***************************************************************************)
MaxTitle == 100
MaxDescription == 1000
MaxAttachments == 5
MaxFileSize == 10 * 1024 * 1024
MaxTotalSize == 50 * 1024 * 1024

\* const validTypes = [...]
ValidTypes == {"application/pdf", "text/plain", "text/markdown", "application/json",
               "application/xml", "text/xml"}

\* the files a user picks from
PdfAtLimit == [name |-> "a.pdf", type |-> "application/pdf", size |-> MaxFileSize]
PdfOverLimit == [name |-> "b.pdf", type |-> "application/pdf", size |-> MaxFileSize + 1]
SmallText == [name |-> "notes.txt", type |-> "text/plain", size |-> 1024]
Image == [name |-> "shot.png", type |-> "image/png", size |-> 1024]
FileKinds == {PdfAtLimit, PdfOverLimit, SmallText, Image}
ListsOver(K) == {<<>>} \cup {<<f>> : f \in K} \cup {<<f, g>> : f \in K, g \in K}
\* e.target.files of one change event: none, one or two files
FileLists == ListsOver(FileKinds)
\* the change events of a user who attaches PDFs only
PdfLists == ListsOver({PdfAtLimit, PdfOverLimit})

\* lengths typed or pasted into the title and description inputs
TitleInputs == {0, MaxTitle, MaxTitle + 1}
DescriptionInputs == {0, MaxDescription, MaxDescription + 1}

Range(q) == {q[i] : i \in DOMAIN q}

RECURSIVE SumSizes(_)
\* attachments.reduce((sum, file) => sum + file.size, 0)
SumSizes(q) == IF q = <<>> THEN 0 ELSE Head(q).size + SumSizes(Tail(q))

\* a size check that excludes the limit itself
FileValidBelowLimit(f) == f.type \in ValidTypes /\ f.size < MaxFileSize

\* files.filter(...) of handleFileChange
RECURSIVE FilterValid(_)
FileValid(f) == f.type \in ValidTypes /\ f.size <= MaxFileSize
FilterValid(q) ==
    IF q = <<>> THEN <<>>
    ELSE IF FileValid(Head(q)) THEN <<Head(q)>> \o FilterValid(Tail(q))
    ELSE FilterValid(Tail(q))

\* prev.filter((_, i) => i !== index)
RemoveAt(q, k) == SubSeq(q, 1, k - 1) \o SubSeq(q, k + 1, Len(q))

\* .eq('is_active', true).order('version', { ascending: false })
RECURSIVE OrderDesc(_)
OrderDesc(S) ==
    IF S = {} THEN <<>>
    ELSE LET m == CHOOSE x \in S :
                    \A y \in S : ~StrLess(ReleaseVersion[x], ReleaseVersion[y])
         IN <<m>> \o OrderDesc(S \ {m})

\* releases.find((r) => r.id === id) found something
Found(rel, id) == id \in Range(rel)

\* a comparison that lets equal versions through
NotNewerStrict(cur, tgt) == StrGreater(ReleaseVersion[cur], ReleaseVersion[tgt])

\* currentRelease.version >= targetRelease.version
NotNewer(cur, tgt) == StrGreaterEq(ReleaseVersion[cur], ReleaseVersion[tgt])

\* validate(): the newErrors it builds
Validate(fd, rel, att) ==
    [reportType |-> IF fd.reportType = "" THEN "Please select a report type" ELSE "",
     currentReleaseId |->
         IF fd.currentReleaseId = "" THEN "Please select your current release" ELSE "",
     targetReleaseId |->
         IF /\ fd.currentReleaseId # "" /\ fd.targetReleaseId # ""
            /\ Found(rel, fd.currentReleaseId) /\ Found(rel, fd.targetReleaseId)
            /\ NotNewer(fd.currentReleaseId, fd.targetReleaseId)
         THEN "Target release must be newer than current release"
         ELSE IF fd.targetReleaseId = "" THEN "Please select a target release" ELSE "",
     title |-> IF fd.title # 0 /\ fd.title > MaxTitle
               THEN "Title cannot exceed 100 characters" ELSE "",
     description |-> IF fd.description # 0 /\ fd.description > MaxDescription
                     THEN "Description cannot exceed 1000 characters" ELSE "",
     attachments |-> IF SumSizes(att) > MaxTotalSize
                     THEN "Total file size cannot exceed 50MB"
                     ELSE IF Len(att) > MaxAttachments THEN "Maximum 5 files allowed"
                     ELSE ""]

\* every loaded release offered as target, whatever the current release is
AvailableTargetsAll(fd, rel) == Range(rel)

\* releases.filter((r) => !currentReleaseId || !currentRelease || r.version > currentRelease.version)
AvailableTargets(fd, rel) ==
    {r \in Range(rel) :
        \/ fd.currentReleaseId = ""
        \/ ~Found(rel, fd.currentReleaseId)
        \/ StrGreater(ReleaseVersion[r], ReleaseVersion[fd.currentReleaseId])}

NoPayload == [user_id |-> NoUser]

\* the component after its first render and effect: fetchReleases() is at its await
FormMounted ==
    /\ formMounted = TRUE
    /\ releases = <<>>
    /\ fLoading = TRUE
    /\ submitting = FALSE
    /\ showConfirm = FALSE
    /\ errors = NoErrors
    /\ attachments = <<>>
    /\ fToast = Null
    /\ formData = InitialFormData
    /\ fNavPending = {}

\* the component is gone
FormUnmounted ==
    /\ formMounted = FALSE
    /\ releases = <<>>
    /\ fLoading = FALSE
    /\ submitting = FALSE
    /\ showConfirm = FALSE
    /\ errors = NoErrors
    /\ attachments = <<>>
    /\ fToast = Null
    /\ formData = InitialFormData
    /\ fNavPending = {}

\* fetchReleases resumes after its await
ReleasesResponse ==
    /\ formMounted
    /\ fLoading
    /\ \E ok \in BOOLEAN :
         IF ok
         THEN /\ releases' = OrderDesc({r \in ReleaseIds : ReleaseActive[r]})
              /\ UNCHANGED fToast
         ELSE /\ fToast' = "error"
              /\ UNCHANGED releases
    /\ fLoading' = FALSE
    /\ UNCHANGED <<requests, user, detailVars, loopVars, pageVars, formMounted, submitting, showConfirm,
                   errors, attachments, formData, confirmPc, payload, usedFiles,
                   fNavPending>>

\* the report type radio buttons
SetReportType ==
    /\ formMounted
    /\ \E t \in ReportTypes : formData' = [formData EXCEPT !.reportType = t]
    /\ UNCHANGED <<requests, user, detailVars, loopVars, pageVars, formMounted, releases, fLoading,
                   submitting, showConfirm, errors, attachments, fToast, confirmPc,
                   payload, usedFiles, fNavPending>>

\* a change of the current release that keeps the target selection
CurrentReleaseChangeKeepsTarget(fd, v) == [fd EXCEPT !.currentReleaseId = v]

\* setFormData((prev) => ({ ...prev, currentReleaseId: v, targetReleaseId: '' }))
CurrentReleaseChange(fd, v) == [fd EXCEPT !.currentReleaseId = v, !.targetReleaseId = ""]

\* the current-release select: its options are '' and every loaded release
SetCurrentRelease ==
    /\ formMounted
    /\ \E v \in {""} \cup Range(releases) : formData' = CurrentReleaseChange(formData, v)
    /\ UNCHANGED <<requests, user, detailVars, loopVars, pageVars, formMounted, releases, fLoading,
                   submitting, showConfirm, errors, attachments, fToast, confirmPc,
                   payload, usedFiles, fNavPending>>

\* the target-release select: disabled without a current release, its options are
\* '' and availableTargets
SetTargetRelease ==
    /\ formMounted
    /\ formData.currentReleaseId # ""
    /\ \E v \in {""} \cup AvailableTargets(formData, releases) :
         formData' = [formData EXCEPT !.targetReleaseId = v]
    /\ UNCHANGED <<requests, user, detailVars, loopVars, pageVars, formMounted, releases, fLoading,
                   submitting, showConfirm, errors, attachments, fToast, confirmPc,
                   payload, usedFiles, fNavPending>>

\* title: e.target.value.slice(0, 100)
SetTitle ==
    /\ formMounted
    /\ \E n \in TitleInputs : formData' = [formData EXCEPT !.title = Min(n, MaxTitle)]
    /\ UNCHANGED <<requests, user, detailVars, loopVars, pageVars, formMounted, releases, fLoading,
                   submitting, showConfirm, errors, attachments, fToast, confirmPc,
                   payload, usedFiles, fNavPending>>

\* description: e.target.value.slice(0, 1000)
SetDescription ==
    /\ formMounted
    /\ \E n \in DescriptionInputs :
         formData' = [formData EXCEPT !.description = Min(n, MaxDescription)]
    /\ UNCHANGED <<requests, user, detailVars, loopVars, pageVars, formMounted, releases, fLoading,
                   submitting, showConfirm, errors, attachments, fToast, confirmPc,
                   payload, usedFiles, fNavPending>>

\* the errors handleFileChange leaves: the attachments message set or removed
FileChangeErrors(prev, files) ==
    IF Len(FilterValid(files)) < Len(files)
    THEN [prev EXCEPT !.attachments =
            "Some files were rejected. Only PDF, TXT, MD, JSON, XML files up to 10MB are allowed."]
    ELSE [prev EXCEPT !.attachments = ""]

\* setAttachments((prev) => [...prev, ...validFiles])
FileChangeAttachments(prev, files) == prev \o FilterValid(files)

\* handleFileChange with e.target.files = files
HandleFileChange(files) ==
    /\ formMounted
    /\ Len(FileChangeAttachments(attachments, files)) <= MaxFiles
    /\ errors' = FileChangeErrors(errors, files)
    /\ attachments' = FileChangeAttachments(attachments, files)
    /\ UNCHANGED <<requests, user, detailVars, loopVars, pageVars, formMounted, releases, fLoading,
                   submitting, showConfirm, fToast, formData, confirmPc, payload,
                   usedFiles, fNavPending>>

RemoveAttachment ==
    /\ formMounted
    /\ \E k \in DOMAIN attachments : attachments' = RemoveAt(attachments, k)
    /\ UNCHANGED <<requests, user, detailVars, loopVars, pageVars, formMounted, releases, fLoading,
                   submitting, showConfirm, errors, fToast, formData, confirmPc,
                   payload, usedFiles, fNavPending>>

\* Object.keys(newErrors).length === 0
ValidateOk(fd, rel, att) == Validate(fd, rel, att) = NoErrors

\* "Review Request" (disabled={loading || submitting}): validate, then open the modal
HandleSubmit ==
    /\ formMounted
    /\ ~fLoading /\ ~submitting
    /\ errors' = Validate(formData, releases, attachments)
    /\ showConfirm' = IF ValidateOk(formData, releases, attachments)
                      THEN TRUE ELSE showConfirm
    /\ UNCHANGED <<requests, user, detailVars, loopVars, pageVars, formMounted, releases, fLoading,
                   submitting, attachments, fToast, formData, confirmPc, payload,
                   usedFiles, fNavPending>>

\* "Edit": onClick={() => setShowConfirm(false)}
EditRequest ==
    /\ formMounted
    /\ showConfirm
    /\ showConfirm' = FALSE
    /\ UNCHANGED <<requests, user, detailVars, loopVars, pageVars, formMounted, releases, fLoading,
                   submitting, errors, attachments, fToast, formData, confirmPc,
                   payload, usedFiles, fNavPending>>

\* the object handed to .insert([...])
InsertPayload(uid, fd) ==
    [user_id |-> uid,
     report_type |-> fd.reportType,
     current_release_id |-> fd.currentReleaseId,
     target_release_id |-> fd.targetReleaseId,
     title |-> fd.title,
     environment |-> fd.environment,
     description |-> fd.description,
     email_notification |-> fd.emailNotification,
     inapp_notification |-> fd.inappNotification]

\* a path that is not namespaced by the request
FilePathWithoutRequest(uid, id, f) == <<uid, f.name>>

\* const filePath = `${user.id}/${data.id}/${file.name}`
FilePath(uid, id, f) == <<uid, id, f.name>>

\* the object handed to .from('attachments').insert([...])
AttachmentPayload(uid, id, f) ==
    [request_id |-> id,
     filename |-> f.name,
     file_path |-> FilePath(uid, id, f),
     file_size |-> f.size,
     file_type |-> f.type]

\* "Users can create attachments on their requests": WITH CHECK (EXISTS (SELECT 1
\* FROM assessment_requests WHERE id = attachments.request_id AND user_id = auth.uid()))
AttachmentInsertPolicy(uid, a) ==
    /\ uid # NoUser
    /\ \E i \in DOMAIN requests :
         requests[i].id = a.request_id /\ requests[i].user_id = uid

\* the row an INSERT into attachments creates
NewAttachmentRow(a, id) ==
    [id |-> id,
     request_id |-> a.request_id,
     filename |-> a.filename,
     file_path |-> a.file_path,
     file_size |-> a.file_size,
     file_type |-> a.file_type]

\* the backend calls of handleConfirm, as they are recorded in `calls`
InsertRequestCall == [op |-> "insertRequest"]
UploadCall(uid, id, f) == [op |-> "upload", path |-> FilePath(uid, id, f)]
InsertAttachmentCall(uid, id, f) ==
    [op |-> "insertAttachment", row |-> AttachmentPayload(uid, id, f)]

\* "Submit Request" (disabled={submitting}): handleConfirm up to its first await
HandleConfirm ==
    /\ formMounted
    /\ showConfirm /\ ~submitting
    /\ confirmPc = "idle"
    /\ Len(requests) < MaxRequests
    /\ IF user = NoUser
       THEN UNCHANGED <<submitting, payload, usedFiles, confirmPc, calls>>
       ELSE /\ submitting' = TRUE
            /\ payload' = InsertPayload(user, formData)
            /\ usedFiles' = attachments
            /\ confirmPc' = "insertSent"
            /\ calls' = <<InsertRequestCall>>
    /\ UNCHANGED <<requests, user, detailVars, pageVars, formMounted, releases, fLoading,
                   showConfirm, errors, attachments, fToast, formData, fNavPending,
                   newId, fileIdx, blobs, attRows>>

\* the backend runs the insert under the insert policy and the table constraints;
\* .select('id').single() returns the new row's id
ServerInsert ==
    /\ confirmPc = "insertSent"
    /\ \E ok \in BOOLEAN :
         IF ok /\ InsertPolicy(user, payload) /\ TableConstraints(payload)
         THEN /\ requests' = Append(requests, NewRow(payload, Len(requests) + 1))
              /\ newId' = Len(requests) + 1
              /\ dEvents' = DashPublish(dEvents, requests'[Len(requests')])
              /\ confirmPc' = "inserted"
         ELSE /\ confirmPc' = "insertErr"
              /\ UNCHANGED <<requests, newId, dEvents>>
    /\ UNCHANGED <<user, detailVars, dashUi, resultsVars, sessionVars, formMounted, releases, fLoading, submitting,
                   showConfirm, errors, attachments, fToast, formData, payload,
                   usedFiles, fNavPending, fileIdx, calls, blobs, attRows>>

\* the end of handleConfirm: the success toast and the navigation timer, or the
\* catch block; then finally.  State setters of a form that is gone do nothing.
ConfirmEnds(ok) ==
    /\ fToast' = IF ~formMounted THEN fToast ELSE IF ok THEN "success" ELSE "error"
    /\ fNavPending' = IF ok THEN fNavPending \cup {newId} ELSE fNavPending
    /\ submitting' = FALSE
    /\ showConfirm' = FALSE
    /\ confirmPc' = "idle"
    /\ payload' = NoPayload
    /\ usedFiles' = <<>>
    /\ newId' = 0
    /\ fileIdx' = 0
    /\ calls' = <<>>

\* the loop reaches file k: supabase.storage.from('attachments').upload(filePath, file)
ConfirmUploads(k) ==
    /\ fileIdx' = k
    /\ confirmPc' = "uploadSent"
    /\ calls' = Append(calls, UploadCall(payload.user_id, newId, usedFiles[k]))
    /\ UNCHANGED <<fToast, fNavPending, submitting, showConfirm, payload, usedFiles,
                   newId>>

\* handleConfirm resumes after the insert: throw error, or the attachment loop
\* when attachments.length > 0, or the end
HandleConfirmResponse ==
    /\ confirmPc \in {"inserted", "insertErr"}
    /\ IF confirmPc = "inserted" /\ Len(usedFiles) > 0
       THEN ConfirmUploads(1)
       ELSE ConfirmEnds(confirmPc = "inserted")
    /\ UNCHANGED <<requests, user, detailVars, pageVars, formMounted, releases, fLoading,
                   errors, attachments, formData, blobs, attRows>>

\* what a call to the backend can do: take effect and return, return an error
\* value, or raise
CallOutcomes == {"done", "error", "thrown"}

\* the storage service runs the upload: it stores the object, or answers with
\* an error (always when the path already holds an object: upsert is off), or
\* the call raises
ServerUpload ==
    /\ confirmPc = "uploadSent"
    /\ \E outcome \in CallOutcomes :
         LET path == FilePath(payload.user_id, newId, usedFiles[fileIdx]) IN
         /\ outcome = "done" => path \notin blobs
         /\ blobs' = IF outcome = "done" THEN blobs \cup {path} ELSE blobs
         /\ confirmPc' = CASE outcome = "thrown" -> "uploadThrown"
                           [] outcome = "error" -> "uploadFailed"
                           [] OTHER -> "uploadReturned"
    /\ UNCHANGED <<requests, user, detailVars, pageVars, formUi, payload, usedFiles,
                   fNavPending, newId, fileIdx, calls, attRows>>

\* handleConfirm resumes after the upload: its result is not looked at; the
\* attachment row is inserted next; an exception lands in catch
HandleUploadResponse ==
    /\ confirmPc \in {"uploadReturned", "uploadFailed", "uploadThrown"}
    /\ IF confirmPc # "uploadThrown"
       THEN /\ confirmPc' = "attachSent"
            /\ calls' = Append(calls, InsertAttachmentCall(payload.user_id, newId,
                                                           usedFiles[fileIdx]))
            /\ UNCHANGED <<fToast, fNavPending, submitting, showConfirm, payload,
                           usedFiles, newId, fileIdx>>
       ELSE ConfirmEnds(FALSE)
    /\ UNCHANGED <<requests, user, detailVars, pageVars, formMounted, releases, fLoading,
                   errors, attachments, formData, blobs, attRows>>

\* the backend runs the insert into attachments under its insert policy
ServerAttachmentInsert ==
    /\ confirmPc = "attachSent"
    /\ \E outcome \in CallOutcomes :
         LET a == AttachmentPayload(payload.user_id, newId, usedFiles[fileIdx]) IN
         /\ attRows' = IF outcome = "done" /\ AttachmentInsertPolicy(user, a)
                       THEN Append(attRows, NewAttachmentRow(a, Len(attRows) + 1))
                       ELSE attRows
         /\ confirmPc' = CASE outcome = "thrown" -> "attachThrown"
                           [] outcome = "done" /\ AttachmentInsertPolicy(user, a) ->
                                "attachReturned"
                           [] OTHER -> "attachFailed"
    /\ UNCHANGED <<requests, user, detailVars, pageVars, formUi, payload, usedFiles,
                   fNavPending, newId, fileIdx, calls, blobs>>

\* handleConfirm resumes after the attachment insert: its result is not looked
\* at; the next file, or the end; an exception lands in catch
HandleAttachmentResponse ==
    /\ confirmPc \in {"attachReturned", "attachFailed", "attachThrown"}
    /\ IF confirmPc = "attachThrown"
       THEN ConfirmEnds(FALSE)
       ELSE IF fileIdx < Len(usedFiles)
            THEN ConfirmUploads(fileIdx + 1)
            ELSE ConfirmEnds(TRUE)
    /\ UNCHANGED <<requests, user, detailVars, pageVars, formMounted, releases, fLoading,
                   errors, attachments, formData, blobs, attRows>>

\* the timer armed by handleConfirm fires: navigate(`/request/${data.id}`); the
\* page on screen is left and the detail view of the new request is entered
FormNavigate ==
    /\ \E id \in fNavPending :
         /\ MountDetail(id)
         /\ fNavPending' = fNavPending \ {id}
         /\ channels' = Subscribed(
                IF dMounted THEN ListingCleanup(channels)
                ELSE IF mounted THEN DetailCleanup(channels, viewId)
                ELSE channels, DetailChannel(id))
    /\ UnmountForm
    /\ UnmountDashboard
    /\ UNCHANGED <<requests, user, cancelPc, cancelId, confirmPc, payload, usedFiles,
                   loopVars, resultsVars, authMounted, authVars, loginVars, access>>

\* the form's own "Cancel" button: navigate('/dashboard')
FormCancel ==
    /\ formMounted
    /\ UnmountForm
    /\ MountDashboard
    /\ channels' = Subscribed(channels, ListingChannel)
    /\ UNCHANGED <<requests, user, detailVars, confirmPc, payload, usedFiles,
                   fNavPending, loopVars, resultsVars, authMounted, authVars, loginVars, access>>

\* Layout.handleSignOut on the form's page when the backend signs the user out:
\* await signOut(), during which the session is removed and the callback of
\* onAuthStateChange runs; navigate('/login')
HandleSignOut ==
    /\ formMounted
    /\ user # NoUser
    /\ signOutPc = "idle"
    /\ session' = NoUser
    /\ user' = OnAuthStateChange(channels, user, NoUser)
    /\ UnmountForm
    /\ MountLogin
    /\ UNCHANGED <<requests, detailVars, confirmPc, payload, usedFiles, fNavPending,
                   loopVars, dashVars, resultsVars, authMounted, channels, authLoading,
                   authEvents, getSessionPc, signOutPc, access>>

(***************************************************************************)
(* Dashboard                                                               *)
(*                                                                         *)
(* Text that is searched is a sequence of one-character strings.  In the   *)
(* listing's specifications a row's title is its text, <<>> for null.      *)
(***************************************************************************)
MaxFetches == 2     \* fetchData() calls of one view in flight together

UpperCase == <<"A", "B", "C", "D", "E", "F", "G", "H", "I", "J", "K", "L", "M",
               "N", "O", "P", "Q", "R", "S", "T", "U", "V", "W", "X", "Y", "Z">>
LowerCase == <<"a", "b", "c", "d", "e", "f", "g", "h", "i", "j", "k", "l", "m",
               "n", "o", "p", "q", "r", "s", "t", "u", "v", "w", "x", "y", "z">>

\* String.prototype.toLowerCase
ToLowerCase(t) ==
    [i \in DOMAIN t |->
        IF \E k \in DOMAIN UpperCase : UpperCase[k] = t[i]
        THEN LowerCase[CHOOSE k \in DOMAIN UpperCase : UpperCase[k] = t[i]]
        ELSE t[i]]

\* String.prototype.includes: t occurs somewhere in text
Includes(text, t) ==
    \E k \in 0..(Len(text) - Len(t)) : SubSeq(text, k + 1, k + Len(t)) = t

\* String.prototype.slice(0, n)
Slice(text, n) == SubSeq(text, 1, Min(n, Len(text)))

\* the uuid of a row, as text
IdText(id) ==
    CASE id = 1 -> <<"3", "f", "a", "9", "0", "c", "1", "e", "-", "7", "d">>
      [] id = 2 -> <<"a", "3", "f", "0", "4", "b", "2", "2", "-", "1", "c">>
      [] OTHER -> <<"7", "c", "3", "e", "5", "5", "d", "8", "-", "3", "f">>

\* req.id.includes(searchTerm) ||
\* (req.title?.toLowerCase().includes(searchTerm.toLowerCase()) ?? false)
MatchesSearch(req, term) ==
    \/ Includes(IdText(req.id), term)
    \/ /\ req.title # <<>>
       /\ Includes(ToLowerCase(req.title), ToLowerCase(term))

\* statusFilter === 'all' || req.status === statusFilter
MatchesStatus(req, filter) == filter = "all" \/ req.status = filter

\* const filteredRequests = requests.filter(...)
FilteredRequests(reqs, term, filter) ==
    SelectSeq(reqs, LAMBDA req : MatchesSearch(req, term) /\ MatchesStatus(req, filter))

\* .select('*').order('created_at', { ascending: false }) under the select policy
RECURSIVE NewestFirst(_)
NewestFirst(S) ==
    IF S = {} THEN <<>>
    ELSE LET m == CHOOSE x \in S : \A y \in S : y.created_at <= x.created_at
         IN <<m>> \o NewestFirst(S \ {m})

VisibleRequests(uid) ==
    NewestFirst({requests[i] : i \in {j \in DOMAIN requests :
                                        SelectPolicy(uid, requests[j])}})

\* the useEffect body at mount: fetchData() runs to its first await, then the
\* channel is subscribed
DashboardMounted ==
    /\ dMounted = TRUE
    /\ dRequests = <<>>
    /\ dLoading = TRUE
    /\ dError = ""
    /\ searchTerm = <<>>
    /\ statusFilter = "all"
    /\ dFetches = <<NewFetch>>
    /\ dSubState = "joining"
    /\ dEvents = 0

\* a fetchData() resumes after the releases query: throw releasesError, or the
\* requests query is sent
DashReleasesResponse(i) ==
    /\ dMounted
    /\ dFetches[i].pc = "relSent"
    /\ \E ok \in BOOLEAN :
         IF ok
         THEN /\ dFetches' = [dFetches EXCEPT ![i].pc = "reqSent"]
              /\ UNCHANGED <<dError, dLoading>>
         ELSE /\ dError' = "Failed to load requests"
              /\ dLoading' = FALSE
              /\ dFetches' = RemoveAt(dFetches, i)
    /\ UNCHANGED <<requests, user, detailVars, formVars, loopVars, resultsVars, sessionVars, dMounted,
                   dRequests, searchTerm, statusFilter, dSubState, dEvents>>

\* the backend runs the requests query of a fetchData()
DashRequestsRead(i) ==
    /\ dFetches[i].pc = "reqSent"
    /\ \E ok \in BOOLEAN :
         dFetches' = [dFetches EXCEPT
                         ![i].pc = "reqRead",
                         ![i].res = IF ok
                                    THEN [kind |-> "rows", rows |-> VisibleRequests(user)]
                                    ELSE [kind |-> "error"]]
    /\ UNCHANGED <<requests, user, detailVars, formVars, loopVars, resultsVars, sessionVars, dMounted,
                   dRequests, dLoading, dError, searchTerm, statusFilter, dSubState,
                   dEvents>>

\* a fetchData() resumes after the requests query: throw requestsError or
\* setRequests; finally { setLoading(false) }
DashRequestsResponse(i) ==
    /\ dMounted
    /\ dFetches[i].pc = "reqRead"
    /\ IF dFetches[i].res.kind = "rows"
       THEN /\ dRequests' = dFetches[i].res.rows
            /\ UNCHANGED dError
       ELSE /\ dError' = "Failed to load requests"
            /\ UNCHANGED dRequests
    /\ dLoading' = FALSE
    /\ dFetches' = RemoveAt(dFetches, i)
    /\ UNCHANGED <<requests, user, detailVars, formVars, loopVars, resultsVars, sessionVars, dMounted,
                   searchTerm, statusFilter, dSubState, dEvents>>

\* .subscribe() has been acknowledged: changes committed from now on are published
DashSubscribeJoined ==
    /\ dMounted
    /\ dSubState = "joining"
    /\ dSubState' = "active"
    /\ UNCHANGED <<requests, user, detailVars, formVars, loopVars, resultsVars, sessionVars, dMounted,
                   dRequests, dLoading, dError, searchTerm, statusFilter, dFetches,
                   dEvents>>

\* the channel callback: fetchData() runs to its first await
DashEventDeliver ==
    /\ dMounted
    /\ dEvents > 0
    /\ Len(dFetches) < MaxFetches
    /\ dEvents' = dEvents - 1
    /\ dLoading' = TRUE
    /\ dError' = ""
    /\ dFetches' = Append(dFetches, NewFetch)
    /\ UNCHANGED <<requests, user, detailVars, formVars, loopVars, resultsVars, sessionVars, dMounted,
                   dRequests, searchTerm, statusFilter, dSubState>>

\* what is typed into the search box
SearchTerms ==
    {<<>>, <<"3", "f">>, <<"3", "F">>, <<"a">>, <<"A", "P", "I">>, <<"z">>}

\* onChange={(e) => setSearchTerm(e.target.value)}
SetSearchTerm ==
    /\ dMounted /\ ~dLoading
    /\ \E t \in SearchTerms : searchTerm' = t
    /\ UNCHANGED <<requests, user, detailVars, formVars, loopVars, resultsVars, sessionVars, dMounted,
                   dRequests, dLoading, dError, statusFilter, dFetches, dSubState,
                   dEvents>>

\* onChange={(e) => setStatusFilter(e.target.value)}
SetStatusFilter ==
    /\ dMounted /\ ~dLoading
    /\ \E f \in {"all"} \cup StatusValues : statusFilter' = f
    /\ UNCHANGED <<requests, user, detailVars, formVars, loopVars, resultsVars, sessionVars, dMounted,
                   dRequests, dLoading, dError, searchTerm, dFetches, dSubState, dEvents>>

\* a request's link in the listing: <Link to={`/request/${request.id}`}>; the
\* listing's effect cleanup runs and the detail view is entered
DashOpenRequest ==
    /\ dMounted /\ ~dLoading
    /\ \E k \in DOMAIN FilteredRequests(dRequests, searchTerm, statusFilter) :
         LET id == FilteredRequests(dRequests, searchTerm, statusFilter)[k].id IN
         /\ MountDetail(id)
         /\ channels' = Subscribed(ListingCleanup(channels), DetailChannel(id))
    /\ UnmountDashboard
    /\ UNCHANGED <<requests, user, cancelPc, cancelId, formVars, loopVars, resultsVars,
                   authMounted, authVars, loginVars, access>>

\* the listing is left for a page that is not followed: the effect cleanup
\* unsubscribes, the state is gone
DashboardLeave ==
    /\ dMounted
    /\ UnmountDashboard
    /\ channels' = ListingCleanup(channels)
    /\ UNCHANGED <<requests, user, detailVars, formVars, loopVars, resultsVars,
                   authMounted, authVars, loginVars, access>>

(***************************************************************************)
(* JSON.  A value is a tree: null, a boolean, a number, a string, an array *)
(* or an object (its members in order).  A number is mant * 10^exp; a      *)
(* JavaScript number whose magnitude is beyond the double range is         *)
(* Infinity.  A JSON text is a sequence of tokens.                         *)
(***************************************************************************)
JNull == [t |-> "null"]
JInfinity == [t |-> "inf"]
JBool(b) == [t |-> "bool", b |-> b]
JNum(m, e) == [t |-> "num", mant |-> m, exp |-> e]
JStr(str) == [t |-> "str", s |-> str]
JArr(items) == [t |-> "arr", items |-> items]
JObj(members) == [t |-> "obj", members |-> members]

Punct(c) == [k |-> c]
Lit(v) == [k |-> "lit", v |-> v]
StrTok(str) == [k |-> "str", s |-> str]
NumTok(m, e) == [k |-> "num", mant |-> m, exp |-> e]
Ws(depth) == [k |-> "ws", depth |-> depth]

\* obj[key]
HasField(obj, key) == \E i \in DOMAIN obj.members : obj.members[i][1] = key
Field(obj, key) ==
    obj.members[CHOOSE i \in DOMAIN obj.members : obj.members[i][1] = key][2]

\* the line break and indentation JSON.stringify writes when space > 0
Indent(space, depth) == IF space > 0 THEN <<Ws(space * depth)>> ELSE <<>>

\* JSON.stringify(value, null, space): a number that is not finite is written
\* as null
RECURSIVE JSONStringify(_, _, _)
RECURSIVE StringifyItems(_, _, _)
RECURSIVE StringifyMembers(_, _, _)
JSONStringify(v, space, depth) ==
    CASE v.t = "null" -> <<Lit("null")>>
      [] v.t = "inf" -> <<Lit("null")>>
      [] v.t = "bool" -> <<Lit(IF v.b THEN "true" ELSE "false")>>
      [] v.t = "num" -> <<NumTok(v.mant, v.exp)>>
      [] v.t = "str" -> <<StrTok(v.s)>>
      [] v.t = "arr" ->
            IF v.items = <<>> THEN <<Punct("["), Punct("]")>>
            ELSE <<Punct("[")>> \o StringifyItems(v.items, space, depth + 1)
                 \o Indent(space, depth) \o <<Punct("]")>>
      [] v.t = "obj" ->
            IF v.members = <<>> THEN <<Punct("{"), Punct("}")>>
            ELSE <<Punct("{")>> \o StringifyMembers(v.members, space, depth + 1)
                 \o Indent(space, depth) \o <<Punct("}")>>

StringifyItems(items, space, depth) ==
    IF items = <<>> THEN <<>>
    ELSE Indent(space, depth) \o JSONStringify(Head(items), space, depth)
         \o (IF Len(items) > 1 THEN <<Punct(",")>> ELSE <<>>)
         \o StringifyItems(Tail(items), space, depth)

StringifyMembers(members, space, depth) ==
    IF members = <<>> THEN <<>>
    ELSE Indent(space, depth) \o <<StrTok(Head(members)[1]), Punct(":")>>
         \o JSONStringify(Head(members)[2], space, depth)
         \o (IF Len(members) > 1 THEN <<Punct(",")>> ELSE <<>>)
         \o StringifyMembers(Tail(members), space, depth)

\* the Number a numeral denotes: Infinity beyond the double range
\* (Number.MAX_VALUE is about 1.8 * 10^308)
NumberOf(m, e) == IF e > 308 THEN JInfinity ELSE JNum(m, e)

RECURSIVE SkipWs(_)
SkipWs(toks) ==
    IF toks # <<>> /\ Head(toks).k = "ws" THEN SkipWs(Tail(toks)) ELSE toks

\* JSON.parse: [val, rest] for the value at the head of the tokens
RECURSIVE ParseValue(_)
RECURSIVE ParseItems(_, _)
RECURSIVE ParseMembers(_, _)
ParseValue(text) ==
    LET toks == SkipWs(text)
        h == Head(toks)
    IN CASE h.k = "lit" ->
              [val |-> IF h.v = "null" THEN JNull ELSE JBool(h.v = "true"),
               rest |-> Tail(toks)]
         [] h.k = "str" -> [val |-> JStr(h.s), rest |-> Tail(toks)]
         [] h.k = "num" -> [val |-> NumberOf(h.mant, h.exp), rest |-> Tail(toks)]
         [] h.k = "[" -> ParseItems(Tail(toks), <<>>)
         [] h.k = "{" -> ParseMembers(Tail(toks), <<>>)

ParseItems(text, acc) ==
    LET toks == SkipWs(text)
    IN IF Head(toks).k = "]" THEN [val |-> JArr(acc), rest |-> Tail(toks)]
       ELSE IF Head(toks).k = "," THEN ParseItems(Tail(toks), acc)
       ELSE LET r == ParseValue(toks) IN ParseItems(r.rest, Append(acc, r.val))

ParseMembers(text, acc) ==
    LET toks == SkipWs(text)
    IN IF Head(toks).k = "}" THEN [val |-> JObj(acc), rest |-> Tail(toks)]
       ELSE IF Head(toks).k = "," THEN ParseMembers(Tail(toks), acc)
       ELSE LET r == ParseValue(Tail(Tail(toks)))
            IN ParseMembers(r.rest, Append(acc, <<Head(toks).s, r.val>>))

JSONParse(text) == ParseValue(text).val

(***************************************************************************)
(* assessment_results and the Results view                                 *)
(***************************************************************************)
\* results === null
NoResult == JNull
NoDownload == [format |-> "none", filename |-> <<>>, content |-> <<>>]

\* policy "Users can read results on their requests"
ResultSelectPolicy(uid, r) ==
    /\ uid # NoUser
    /\ \E i \in DOMAIN requests :
         /\ JStr(IdText(requests[i].id)) = Field(r, "request_id")
         /\ requests[i].user_id = uid

\* .from('assessment_results').select('*').eq('request_id', id), as this user
ResultsOf(uid, id) ==
    SelectSeq(resultRows, LAMBDA r : /\ Field(r, "request_id") = JStr(IdText(id))
                                     /\ ResultSelectPolicy(uid, r))

\* .from('assessment_requests').select('*').eq('id', id), as this user
RequestsOf(uid, id) ==
    SelectSeq(requests, LAMBDA r : r.id = id /\ SelectPolicy(uid, r))

\* the body of the response that carries a row
ResponseBody(row) == JSONStringify(row, 0, 0)

\* a fetchData() of the results view at its first await
NewResultsFetch(id) == [id |-> id, pc |-> "reqSent"]

\* first render and effect of the results view on this route id
ResultsMounted(id) ==
    /\ rMounted = TRUE
    /\ rId = id
    /\ rRequest = NoRequest
    /\ rResults = NoResult
    /\ rLoading = TRUE
    /\ rError = ""
    /\ rFetches = <<NewResultsFetch(id)>>
    /\ rToast = Null
    /\ download = NoDownload

\* catch (err) { setError(...) } finally { setLoading(false) }
ResultsFetchFails(i) ==
    /\ rError' = "Failed to load results"
    /\ rLoading' = FALSE
    /\ rFetches' = RemoveAt(rFetches, i)

\* the request query answers and fetchData() resumes: .single() is an error
\* unless one row came back; setRequest, then the results query is sent
ResultsRequestResponse(i) ==
    /\ rMounted
    /\ rFetches[i].pc = "reqSent"
    /\ \E ok \in BOOLEAN :
         LET rows == RequestsOf(user, rFetches[i].id)
         IN IF ok /\ Len(rows) = 1
            THEN /\ rRequest' = rows[1]
                 /\ rFetches' = [rFetches EXCEPT ![i].pc = "resSent"]
                 /\ UNCHANGED <<rError, rLoading>>
            ELSE /\ ResultsFetchFails(i)
                 /\ UNCHANGED rRequest
    /\ UNCHANGED <<requests, user, detailVars, formVars, loopVars, dashVars,
                   sessionVars, resultRows, rMounted, rId, rResults, rToast, locale,
                   download>>

\* the results query answers and fetchData() resumes: setResults, then the
\* releases query is sent
ResultsResultsResponse(i) ==
    /\ rMounted
    /\ rFetches[i].pc = "resSent"
    /\ \E ok \in BOOLEAN :
         LET rows == ResultsOf(user, rFetches[i].id)
         IN IF ok /\ Len(rows) = 1
            THEN /\ rResults' = JSONParse(ResponseBody(rows[1]))
                 /\ rFetches' = [rFetches EXCEPT ![i].pc = "relSent"]
                 /\ UNCHANGED <<rError, rLoading>>
            ELSE /\ ResultsFetchFails(i)
                 /\ UNCHANGED rResults
    /\ UNCHANGED <<requests, user, detailVars, formVars, loopVars, dashVars,
                   sessionVars, resultRows, rMounted, rId, rRequest, rToast, locale,
                   download>>

\* the releases query answers and fetchData() ends: setReleases or setError;
\* finally { setLoading(false) }
ResultsReleasesResponse(i) ==
    /\ rMounted
    /\ rFetches[i].pc = "relSent"
    /\ \E ok \in BOOLEAN :
         IF ok
         THEN /\ rLoading' = FALSE
              /\ rFetches' = RemoveAt(rFetches, i)
              /\ UNCHANGED rError
         ELSE ResultsFetchFails(i)
    /\ UNCHANGED <<requests, user, detailVars, formVars, loopVars, dashVars,
                   sessionVars, resultRows, rMounted, rId, rRequest, rResults, rToast,
                   locale, download>>

\* the route id changes while the results view stays mounted (history
\* navigation): the effect runs again, the state of the component is kept
ResultsRouteChange ==
    /\ rMounted
    /\ Len(rFetches) < MaxFetches
    /\ \E id \in DOMAIN requests :
         /\ id # rId
         /\ rId' = id
         /\ rFetches' = Append(rFetches, NewResultsFetch(id))
    /\ rLoading' = TRUE
    /\ rError' = ""
    /\ UNCHANGED <<requests, user, detailVars, formVars, loopVars, dashVars,
                   sessionVars, resultRows, rMounted, rRequest, rResults, rToast,
                   locale, download>>

\* what the component returns: the skeleton while loading, 'Results not
\* available' when error || !results, the report otherwise
ResultsRender ==
    IF rLoading THEN "loading"
    ELSE IF rError # "" \/ rResults = NoResult THEN "not available"
    ELSE "report"

\* a piece of generated text: literal text, a string's characters, or ${value}
Txt(str) == [lit |-> str]
Chars(cs) == [chars |-> cs]
Val(v) == [val |-> v]

\* two-digit fields of a timestamp and the numbers they denote
Padded == <<"01", "02", "03", "04", "05", "06", "07", "08", "09", "10", "11", "12",
            "13", "14", "15", "16", "17", "18", "19", "20", "21", "22", "23", "24",
            "25", "26", "27", "28", "29", "30", "31">>
Plain == <<"1", "2", "3", "4", "5", "6", "7", "8", "9", "10", "11", "12",
           "13", "14", "15", "16", "17", "18", "19", "20", "21", "22", "23", "24",
           "25", "26", "27", "28", "29", "30", "31">>
ValueOf(dd) ==
    IF \E k \in DOMAIN Padded : Padded[k] = dd
    THEN CHOOSE k \in DOMAIN Padded : Padded[k] = dd
    ELSE 0

\* new Date(text) of an ISO timestamp at offset +00:00
NewDate(text) ==
    [year |-> text[1], month |-> ValueOf(text[3]), day |-> ValueOf(text[5]),
     hour |-> ValueOf(text[7]), minute |-> text[9], second |-> text[11]]

\* the environments the page runs in
Locales == {"en-US", "de-DE"}

\* Date.prototype.toLocaleString() in an environment with this default locale
\* (time zone UTC): 1/1/2026, 5:43:10 PM in en-US, 1.1.2026, 17:43:10 in de-DE
ToLocaleString(date, loc) ==
    IF loc = "en-US"
    THEN <<Plain[date.month], "/", Plain[date.day], "/", date.year, ", ",
           Plain[IF date.hour % 12 = 0 THEN 12 ELSE date.hour % 12], ":",
           date.minute, ":", date.second,
           IF date.hour < 12 THEN " AM" ELSE " PM">>
    ELSE <<Plain[date.day], ".", Plain[date.month], ".", date.year, ", ",
           IF date.hour = 0 THEN "00" ELSE Padded[date.hour], ":",
           date.minute, ":", date.second>>

\* results.api_changes.forEach(...)
RECURSIVE ApiChangeLines(_)
ApiChangeLines(items) ==
    IF items = <<>> THEN <<>>
    ELSE << <<Txt("### "), Val(Field(Head(items), "endpoint"))>>,
            <<Txt("- **Method:** "), Val(Field(Head(items), "method"))>>,
            <<Txt("- **Type:** "), Val(Field(Head(items), "change_type"))>>,
            <<Txt("- **Summary:** "), Val(Field(Head(items), "summary"))>>,
            <<>> >> \o ApiChangeLines(Tail(items))

\* results.database_changes.forEach(...)
RECURSIVE DatabaseChangeLines(_)
DatabaseChangeLines(items) ==
    IF items = <<>> THEN <<>>
    ELSE << <<Txt("### "), Val(Field(Head(items), "table_name"))>>,
            <<Txt("- **Type:** "), Val(Field(Head(items), "change_type"))>>,
            <<Txt("- **Summary:** "), Val(Field(Head(items), "summary"))>>,
            <<>> >> \o DatabaseChangeLines(Tail(items))

\* value && value.length > 0
NonEmptyArray(v) == v.t = "arr" /\ v.items # <<>>

\* generateMarkdown(): the lines of the document, each a sequence of pieces
GenerateMarkdown(results, req, loc) ==
    IF results = NoResult \/ req = NoRequest THEN <<>>
    ELSE LET summary == Field(results, "summary")
             findings == Field(summary, "key_findings")
             api == Field(results, "api_changes")
             db == Field(results, "database_changes")
         IN << <<Txt("# Impact Assessment Report")>>, <<>>,
               <<Txt("**Request ID:** "), Chars(IdText(req.id))>>,
               <<Txt("**Report Type:** "), Txt(req.report_type)>>,
               <<Txt("**Generated:** "),
                 Chars(ToLocaleString(NewDate(Field(results, "generated_at").s), loc))>>,
               <<>>,
               <<Txt("## Summary")>>, <<>>,
               <<Txt("- **API Endpoints Modified:** "),
                 Val(Field(summary, "api_endpoints_modified"))>>,
               <<Txt("- **API Endpoints Added:** "),
                 Val(Field(summary, "api_endpoints_added"))>>,
               <<Txt("- **API Endpoints Removed:** "),
                 Val(Field(summary, "api_endpoints_removed"))>>,
               <<Txt("- **Database Tables Modified:** "),
                 Val(Field(summary, "database_tables_modified"))>>,
               <<Txt("- **Database Tables Added:** "),
                 Val(Field(summary, "database_tables_added"))>>,
               <<Txt("- **Database Tables Removed:** "),
                 Val(Field(summary, "database_tables_removed"))>>,
               <<Txt("- **Risk Level:** "), Val(Field(summary, "risk_level"))>>,
               <<Txt("- **Breaking Changes:** "),
                 Txt(IF Field(summary, "breaking_changes").b THEN "Yes" ELSE "No")>>,
               <<>> >>
            \o (IF findings.items # <<>>
                THEN << <<Txt("## Key Findings")>>, <<>> >>
                     \o [k \in DOMAIN findings.items |->
                           <<Txt("- "), Val(findings.items[k])>>]
                     \o << <<>> >>
                ELSE <<>>)
            \o (IF NonEmptyArray(api)
                THEN << <<Txt("## API Changes")>>, <<>> >> \o ApiChangeLines(api.items)
                ELSE <<>>)
            \o (IF NonEmptyArray(db)
                THEN << <<Txt("## Database Changes")>>, <<>> >>
                     \o DatabaseChangeLines(db.items)
                ELSE <<>>)

\* text.replace(pat, rep) where rep is appended and pat is left in place
ReplaceAppends(text, pat, rep) == text \o rep

\* String.prototype.replace(pat, rep) for a one-character pat: the first
\* occurrence is replaced
Replace(text, pat, rep) ==
    IF \E k \in DOMAIN text : text[k] = pat
    THEN LET i == CHOOSE k \in DOMAIN text :
                    text[k] = pat /\ \A j \in 1..(k - 1) : text[j] # pat
         IN SubSeq(text, 1, i - 1) \o rep \o SubSeq(text, i + 1, Len(text))
    ELSE text

\* `assessment-${request?.id.slice(0, 8)}.`
FilenameStem(req) ==
    <<"a", "s", "s", "e", "s", "s", "m", "e", "n", "t", "-">>
    \o (IF req = NoRequest
        THEN <<"u", "n", "d", "e", "f", "i", "n", "e", "d">>
        ELSE Slice(IdText(req.id), 8))
    \o <<".">>

DownloadFormats == {"pdf", "json", "markdown"}

\* the file handleDownload(format) hands to the browser
DownloadFile(format, results, req, loc) ==
    CASE format = "json" ->
           [format |-> format,
            filename |-> FilenameStem(req) \o <<"j", "s", "o", "n">>,
            content |-> JSONStringify(results, 2, 0)]
      [] format = "markdown" ->
           [format |-> format,
            filename |-> FilenameStem(req) \o <<"m", "d">>,
            content |-> GenerateMarkdown(results, req, loc)]
      [] OTHER ->
           [format |-> format,
            filename |-> Replace(FilenameStem(req), ".", <<".", "j", "s", "o", "n">>),
            content |-> JSONStringify(results, 2, 0)]

\* a download button of the report is clicked
HandleDownload(format) ==
    /\ rMounted
    /\ ResultsRender = "report"
    /\ download' = DownloadFile(format, rResults, rRequest, locale)
    /\ rToast' = "Report downloaded successfully"
    /\ UNCHANGED <<requests, user, detailVars, formVars, loopVars, dashVars,
                   sessionVars, resultRows, rMounted, rId, rRequest, rResults,
                   rLoading, rError, rFetches, locale>>

\* setTimeout(() => setToast(null), 2000)
ResultsToastExpire ==
    /\ rMounted
    /\ rToast # Null
    /\ rToast' = Null
    /\ UNCHANGED <<requests, user, detailVars, formVars, loopVars, dashVars,
                   sessionVars, resultRows, rMounted, rId, rRequest, rResults,
                   rLoading, rError, rFetches, locale, download>>

(***************************************************************************)
(* AuthProvider, Layout.handleSignOut and Login                            *)
(***************************************************************************)
MaxAuthEvents == 2  \* session-change notifications waiting for the callback

\* the auth client announces a session state to its subscribers
Announced(q, chs, u) ==
    IF \E k \in DOMAIN chs : chs[k].view = "auth" THEN Append(q, u) ELSE q

\* first render and effect of the AuthProvider: getSession() runs to its await,
\* onAuthStateChange subscribes
AuthProviderMounted ==
    /\ authMounted = TRUE
    /\ user = NoUser
    /\ authLoading = TRUE
    /\ authEvents = <<>>
    /\ getSessionPc = [pc |-> "sent"]
    /\ signOutPc = "idle"

\* supabase.auth.getSession() reads the client's session
GetSessionRead ==
    /\ getSessionPc.pc = "sent"
    /\ getSessionPc' = [pc |-> "read", user |-> session]
    /\ UNCHANGED <<user, dataVars, dashVars, authMounted, channels, session,
                   authLoading, authEvents, signOutPc, loginVars>>

\* getSession() resumes: if (session?.user) setUser(...); setLoading(false)
GetSessionResponse ==
    /\ authMounted
    /\ getSessionPc.pc = "read"
    /\ user' = IF getSessionPc.user # NoUser THEN getSessionPc.user ELSE user
    /\ authLoading' = FALSE
    /\ getSessionPc' = [pc |-> "done"]
    /\ UNCHANGED <<dataVars, dashVars, authMounted, channels, session, authEvents,
                   signOutPc, loginVars>>

\* the session changes outside this page (another tab signs out or in, the
\* session expires): the client announces the new state
ExternalSessionChange ==
    /\ authMounted
    /\ Len(authEvents) < MaxAuthEvents
    /\ \E u \in {NoUser, "u1"} :
         /\ u # session
         /\ session' = u
         /\ authEvents' = Announced(authEvents, channels, u)
    /\ UNCHANGED <<user, dataVars, dashVars, authMounted, channels, authLoading,
                   getSessionPc, signOutPc, loginVars>>

\* the callback of onAuthStateChange runs for the oldest announcement
AuthEventDeliver ==
    /\ authMounted
    /\ authEvents # <<>>
    /\ user' = OnAuthStateChange(channels, user, Head(authEvents))
    /\ authEvents' = Tail(authEvents)
    /\ UNCHANGED <<dataVars, dashVars, authMounted, channels, session, authLoading,
                   getSessionPc, signOutPc, loginVars>>

\* Layout.handleSignOut on the listing's page: signOut() runs to its await
SignOutRequest ==
    /\ dMounted
    /\ signOutPc = "idle"
    /\ signOutPc' = "sent"
    /\ UNCHANGED <<user, dataVars, dashVars, authMounted, channels, session,
                   authLoading, authEvents, getSessionPc, loginVars>>

\* supabase.auth.signOut(): the backend call succeeds, the session is removed and
\* announced; or it fails and the session is kept
SignOutBackend ==
    /\ signOutPc = "sent"
    /\ \E ok \in BOOLEAN :
         IF ok
         THEN /\ Len(authEvents) < MaxAuthEvents
              /\ session' = NoUser
              /\ authEvents' = Announced(authEvents, channels, NoUser)
              /\ signOutPc' = "removed"
         ELSE /\ signOutPc' = "failed"
              /\ UNCHANGED <<session, authEvents>>
    /\ UNCHANGED <<user, dataVars, dashVars, authMounted, channels, authLoading,
                   getSessionPc, loginVars>>

\* signOut() returns once the subscribers have been told, and
\* navigate('/login'); or it throws and handleSignOut logs to the console
SignOutReturns ==
    /\ signOutPc \in {"removed", "failed"}
    /\ signOutPc' = "idle"
    /\ IF signOutPc = "removed"
       THEN /\ authEvents = <<>>
            /\ IF dMounted
               THEN /\ UnmountDashboard
                    /\ MountLogin
                    /\ channels' = ListingCleanup(channels)
               ELSE UNCHANGED <<dashVars, channels, loginVars>>
       ELSE UNCHANGED <<dashVars, channels, loginVars>>
    /\ UNCHANGED <<user, dataVars, authMounted, session, authLoading, authEvents,
                   getSessionPc>>

\* the values typed into the login form
LoginEmails == {"", "dev@acme.io"}
LoginPasswords == {<<>>, <<"p", "a", "s", "s", "w", "o", "r">>,
                   <<"p", "a", "s", "s", "w", "o", "r", "d">>}

SetEmail ==
    /\ loginMounted
    /\ ~loginLoading
    /\ \E v \in LoginEmails : email' = v
    /\ UNCHANGED <<user, dataVars, dashVars, authMounted, channels, authVars,
                   loginMounted, password, confirmPassword, loginError, loginLoading,
                   isSignup, loginPc>>

SetPassword ==
    /\ loginMounted
    /\ ~loginLoading
    /\ \E v \in LoginPasswords : password' = v
    /\ UNCHANGED <<user, dataVars, dashVars, authMounted, channels, authVars,
                   loginMounted, email, confirmPassword, loginError, loginLoading,
                   isSignup, loginPc>>

SetConfirmPassword ==
    /\ loginMounted
    /\ ~loginLoading
    /\ isSignup
    /\ \E v \in LoginPasswords : confirmPassword' = v
    /\ UNCHANGED <<user, dataVars, dashVars, authMounted, channels, authVars,
                   loginMounted, email, password, loginError, loginLoading, isSignup,
                   loginPc>>

\* the 'Sign Up' / 'Log In' switch under the form
ToggleSignup ==
    /\ loginMounted
    /\ ~loginLoading
    /\ isSignup' = ~isSignup
    /\ loginError' = ""
    /\ email' = ""
    /\ password' = <<>>
    /\ confirmPassword' = <<>>
    /\ UNCHANGED <<user, dataVars, dashVars, authMounted, channels, authVars,
                   loginMounted, loginLoading, loginPc>>

\* Login.handleSubmit up to its return or its await
LoginHandleSubmit ==
    /\ loginMounted
    /\ ~loginLoading
    /\ loginPc = "idle"
    /\ IF email = "" \/ password = <<>>
       THEN /\ loginError' = "Email and password are required"
            /\ loginLoading' = FALSE
            /\ UNCHANGED loginPc
       ELSE IF isSignup /\ password # confirmPassword
       THEN /\ loginError' = "Passwords do not match"
            /\ loginLoading' = FALSE
            /\ UNCHANGED loginPc
       ELSE IF isSignup /\ Len(password) < 8
       THEN /\ loginError' = "Password must be at least 8 characters"
            /\ loginLoading' = FALSE
            /\ UNCHANGED loginPc
       ELSE /\ loginError' = ""
            /\ loginLoading' = TRUE
            /\ loginPc' = IF isSignup THEN "signUpSent" ELSE "signInSent"
    /\ UNCHANGED <<user, dataVars, dashVars, authMounted, channels, authVars,
                   loginMounted, email, password, confirmPassword, isSignup>>

\* supabase.auth.signUp / signInWithPassword at the backend: a sign-in that
\* succeeds opens the session and announces it
LoginBackend ==
    /\ loginPc \in {"signUpSent", "signInSent"}
    /\ \E ok \in BOOLEAN :
         IF ok /\ loginPc = "signInSent"
         THEN /\ Len(authEvents) < MaxAuthEvents
              /\ session' = "u1"
              /\ authEvents' = Announced(authEvents, channels, "u1")
              /\ loginPc' = "signInOk"
         ELSE /\ loginPc' = IF ok THEN "signUpOk"
                            ELSE IF loginPc = "signUpSent" THEN "signUpErr"
                            ELSE "signInErr"
              /\ UNCHANGED <<session, authEvents>>
    /\ UNCHANGED <<user, dataVars, dashVars, authMounted, channels, authLoading,
                   getSessionPc, signOutPc, loginMounted, email, password,
                   confirmPassword, loginError, loginLoading, isSignup>>

\* Login.handleSubmit resumes after signUp: the fields are cleared and the
\* 'Account created' message is set; or catch
LoginSignUpResponse ==
    /\ loginMounted
    /\ loginPc \in {"signUpOk", "signUpErr"}
    /\ loginPc' = "idle"
    /\ IF loginPc = "signUpOk"
       THEN /\ email' = ""
            /\ password' = <<>>
            /\ confirmPassword' = <<>>
            /\ isSignup' = FALSE
            /\ loginError' = "Account created! You can now log in."
            /\ UNCHANGED loginLoading
       ELSE /\ loginError' = "Failed to create account. Email may already exist."
            /\ loginLoading' = FALSE
            /\ UNCHANGED <<email, password, confirmPassword, isSignup>>
    /\ UNCHANGED <<user, dataVars, dashVars, authMounted, channels, authVars,
                   loginMounted>>

\* Login.handleSubmit resumes after signIn: navigate('/dashboard'); or catch
LoginSignInResponse ==
    /\ loginMounted
    /\ loginPc \in {"signInOk", "signInErr"}
    /\ loginPc' = "idle"
    /\ IF loginPc = "signInOk"
       THEN /\ loginMounted' = FALSE
            /\ email' = ""
            /\ password' = <<>>
            /\ confirmPassword' = <<>>
            /\ loginError' = ""
            /\ loginLoading' = FALSE
            /\ isSignup' = FALSE
            /\ MountDashboard
            /\ channels' = Subscribed(channels, ListingChannel)
       ELSE /\ loginError' = "Invalid email or password. Please try again."
            /\ loginLoading' = FALSE
            /\ UNCHANGED <<loginMounted, email, password, confirmPassword, isSignup,
                           dashVars, channels>>
    /\ UNCHANGED <<user, dataVars, authMounted, authVars>>

(***************************************************************************)
(* Specifications                                                          *)
(***************************************************************************)
\* no handleConfirm is running
LoopIdle ==
    /\ newId = 0
    /\ fileIdx = 0
    /\ calls = <<>>

\* nothing has been attached to any request yet
StorageEmpty ==
    /\ blobs = {}
    /\ attRows = <<>>

\* the listing is not on screen
DashboardUnmounted ==
    /\ dMounted = FALSE
    /\ dRequests = <<>>
    /\ dLoading = FALSE
    /\ dError = ""
    /\ searchTerm = <<>>
    /\ statusFilter = "all"
    /\ dFetches = <<>>
    /\ dSubState = "none"
    /\ dEvents = 0

\* the results view is not on screen
ResultsUnmounted ==
    /\ rMounted = FALSE
    /\ rId = 0
    /\ rRequest = NoRequest
    /\ rResults = NoResult
    /\ rLoading = FALSE
    /\ rError = ""
    /\ rFetches = <<>>
    /\ rToast = Null
    /\ download = NoDownload

\* no assessment has produced a result
NoResultRows ==
    /\ resultRows = <<>>
    /\ locale = "en-US"

\* the login form is not on screen
LoginUnmounted ==
    /\ loginMounted = FALSE
    /\ email = ""
    /\ password = <<>>
    /\ confirmPassword = <<>>
    /\ loginError = ""
    /\ loginLoading = FALSE
    /\ isSignup = FALSE
    /\ loginPc = "idle"

\* the AuthProvider is mounted and has loaded the session of the signed-in user;
\* the subscriptions of the mounted views are open
SessionOpen ==
    /\ authMounted = TRUE
    /\ session = user
    /\ authLoading = FALSE
    /\ authEvents = <<>>
    /\ getSessionPc = [pc |-> "done"]
    /\ signOutPc = "idle"
    /\ LoginUnmounted
    /\ access = NoAccess
    /\ channels = <<AuthChannel>>
                   \o (IF mounted THEN <<DetailChannel(viewId)>> ELSE <<>>)
                   \o (IF dMounted THEN <<ListingChannel>> ELSE <<>>)

\* the pages other than the form and the detail view are not on screen
PagesClosed ==
    /\ DashboardUnmounted
    /\ ResultsUnmounted
    /\ NoResultRows
    /\ SessionOpen

\* a generated_at as text: 2026-01-01T17:43:10+00:00
SeedGeneratedAt ==
    <<"2026", "-", "01", "-", "01", "T", "17", ":", "43", ":", "10", "+00:00">>

\* the summary column of a result
SeedSummary(findings) ==
    JObj(<< <<"api_endpoints_modified", JNum(2, 0)>>,
            <<"api_endpoints_added", JNum(1, 0)>>,
            <<"api_endpoints_removed", JNum(0, 0)>>,
            <<"database_tables_modified", JNum(1, 0)>>,
            <<"database_tables_added", JNum(0, 0)>>,
            <<"database_tables_removed", JNum(0, 0)>>,
            <<"risk_level", JStr("High")>>,
            <<"breaking_changes", JBool(TRUE)>>,
            <<"key_findings", JArr(findings)>> >>)

\* an assessment_results row, its columns in the table's order
ResultRow(requestId, findings, api, db, raw, generatedAt) ==
    JObj(<< <<"id", JStr(<<"e", "9">> \o IdText(requestId))>>,
            <<"request_id", JStr(IdText(requestId))>>,
            <<"summary", SeedSummary(findings)>>,
            <<"api_changes", api>>,
            <<"database_changes", db>>,
            <<"raw_data", raw>>,
            <<"generated_at", JStr(generatedAt)>> >>)

SeedResult(requestId) ==
    ResultRow(requestId, <<>>, JNull, JNull, JObj(<<>>), SeedGeneratedAt)

(***************************************************************************)
(* The assessment-generation collaborator (not part of this code base):    *)
(* Queued -> Running -> {Completed, Failed}; it writes the result row of a *)
(* request in the step that moves the request to Completed                 *)
(***************************************************************************)
CollabStart(i) ==
    /\ requests[i].status = "Queued"
    /\ requests' = [requests EXCEPT ![i].status = "Running"]
    /\ UNCHANGED resultRows
    /\ notifs' = Publish(notifs, requests'[i])
    /\ dEvents' = DashPublish(dEvents, requests'[i])

CollabComplete(i) ==
    /\ requests[i].status = "Running"
    /\ requests' = [requests EXCEPT ![i].status = "Completed", ![i].completed_at = 1]
    /\ resultRows' = Append(resultRows, SeedResult(requests[i].id))
    /\ notifs' = Publish(notifs, requests'[i])
    /\ dEvents' = DashPublish(dEvents, requests'[i])

CollabFail(i) ==
    /\ requests[i].status = "Running"
    /\ requests' = [requests EXCEPT ![i].status = "Failed",
                                    ![i].error_message = "Assessment failed",
                                    ![i].completed_at = 1]
    /\ UNCHANGED resultRows
    /\ notifs' = Publish(notifs, requests'[i])
    /\ dEvents' = DashPublish(dEvents, requests'[i])

Collaborator ==
    /\ \E i \in DOMAIN requests : CollabStart(i) \/ CollabComplete(i) \/ CollabFail(i)
    /\ UNCHANGED <<user, viewId, mounted, request, loading, error, toast, cancelConfirm,
                   canceling, navPending, fetchPc, fetchRes, subState, cancelPc, cancelId,
                   formVars, loopVars, dashUi, rMounted, rId, rRequest, rResults,
                   rLoading, rError, rFetches, rToast, locale, download, sessionVars>>

SeedPayload(u) ==
    [user_id |-> u, report_type |-> "API", current_release_id |-> "r1",
     target_release_id |-> "r2", title |-> 0, environment |-> "Not Applicable",
     description |-> 0, email_notification |-> TRUE, inapp_notification |-> TRUE]

\* one request of some owner is in the store and a signed-in user opens its
\* detail view
Init ==
    /\ user \in Users
    /\ \E owner \in Users : requests = <<NewRow(SeedPayload(owner), 1)>>
    /\ viewId = 1
    /\ DetailMounted
    /\ FormUnmounted
    /\ confirmPc = "idle"
    /\ payload = NoPayload
    /\ usedFiles = <<>>
    /\ LoopIdle
    /\ StorageEmpty
    /\ PagesClosed

DetailNext ==
    \/ Collaborator
    \/ FetchRequestRead
    \/ FetchRequestResponse
    \/ FetchReleasesResponse
    \/ FetchAttachmentsResponse
    \/ SubscribeJoined
    \/ NotifDeliver
    \/ OpenCancelConfirm
    \/ KeepRequest
    \/ HandleCancel
    \/ ServerCancelUpdate
    \/ HandleCancelResponse
    \/ NavigateDashboard

Next == DetailNext

Spec == Init /\ [][Next]_vars

\* the store is empty and the submission form has just been opened
FormInit ==
    /\ user \in {"u1", NoUser}
    /\ requests = <<>>
    /\ viewId = 0
    /\ DetailUnmounted
    /\ cancelPc = "idle"
    /\ cancelId = 0
    /\ FormMounted
    /\ confirmPc = "idle"
    /\ payload = NoPayload
    /\ usedFiles = <<>>
    /\ LoopIdle
    /\ StorageEmpty
    /\ PagesClosed

\* the free-text fields are followed until this form has stored a row; the
\* selections stay free after that
TextEdits ==
    /\ requests = <<>>
    /\ (SetTitle \/ SetDescription)

FormNext ==
    \/ ReleasesResponse
    \/ SetReportType
    \/ SetCurrentRelease
    \/ SetTargetRelease
    \/ TextEdits
    \/ HandleSubmit
    \/ EditRequest
    \/ HandleConfirm
    \/ ServerInsert
    \/ HandleConfirmResponse
    \/ FormNavigate
    \/ FormCancel

\* the fields of the form and its submission; no file is ever attached
FormSpec == FormInit /\ [][FormNext]_vars

\* a form the user has filled in (API, EB20 -> EB21), before any file is chosen
FilledFormData ==
    [InitialFormData EXCEPT !.reportType = "API", !.currentReleaseId = "r1",
                            !.targetReleaseId = "r2"]

FilesInit ==
    /\ user = "u1"
    /\ requests = <<>>
    /\ viewId = 0
    /\ DetailUnmounted
    /\ cancelPc = "idle"
    /\ cancelId = 0
    /\ formMounted = TRUE
    /\ releases = OrderDesc({r \in ReleaseIds : ReleaseActive[r]})
    /\ fLoading = FALSE
    /\ submitting = FALSE
    /\ showConfirm = FALSE
    /\ errors = NoErrors
    /\ attachments = <<>>
    /\ fToast = Null
    /\ formData = FilledFormData
    /\ fNavPending = {}
    /\ confirmPc = "idle"
    /\ payload = NoPayload
    /\ usedFiles = <<>>
    /\ LoopIdle
    /\ StorageEmpty
    /\ PagesClosed

FilesNext ==
    \/ \E files \in PdfLists : HandleFileChange(files)
    \/ RemoveAttachment
    \/ HandleSubmit
    \/ EditRequest
    \/ HandleConfirm
    \/ ServerInsert
    \/ HandleConfirmResponse
    \/ ServerUpload
    \/ HandleUploadResponse
    \/ ServerAttachmentInsert
    \/ HandleAttachmentResponse
    \/ FormNavigate
    \/ FormCancel

\* the attachments of the form and its submission; the fields stay as filled in
FilesSpec == FilesInit /\ [][FilesNext]_vars

\* validate() on every form state of the FormData type whose release selections
\* are options of the loaded list
ValidateInit ==
    /\ user = "u1"
    /\ requests = <<>>
    /\ viewId = 0
    /\ DetailUnmounted
    /\ cancelPc = "idle"
    /\ cancelId = 0
    /\ formMounted = TRUE
    /\ \E S \in SUBSET ReleaseIds : releases = OrderDesc(S)
    /\ fLoading = FALSE
    /\ submitting = FALSE
    /\ showConfirm = FALSE
    /\ errors = NoErrors
    /\ attachments \in {<<>>, <<SmallText>>,
                        <<PdfAtLimit, PdfAtLimit, PdfAtLimit, PdfAtLimit, PdfAtLimit>>,
                        <<SmallText, SmallText, SmallText, SmallText, SmallText, SmallText>>,
                        <<PdfAtLimit, PdfAtLimit, PdfAtLimit, PdfAtLimit, PdfAtLimit,
                          SmallText>>}
    /\ fToast = Null
    /\ \E t \in ReportTypes \cup {""}, c \in Range(releases) \cup {""},
          g \in Range(releases) \cup {""}, n \in TitleInputs, d \in DescriptionInputs :
         formData = [InitialFormData EXCEPT !.reportType = t, !.currentReleaseId = c,
                                            !.targetReleaseId = g, !.title = n,
                                            !.description = d]
    /\ fNavPending = {}
    /\ confirmPc = "idle"
    /\ payload = NoPayload
    /\ usedFiles = <<>>
    /\ LoopIdle
    /\ StorageEmpty
    /\ PagesClosed

ValidateNext ==
    \/ HandleSubmit
    \/ EditRequest

ValidateSpec == ValidateInit /\ [][ValidateNext]_vars

\* the attachments a submission starts with: none, one, two of different names,
\* two of the same name
SubmitFileLists == {<<>>, <<SmallText>>, <<PdfAtLimit, SmallText>>,
                    <<PdfAtLimit, PdfAtLimit>>}

\* a filled form with its attachments chosen, before or after "Review Request";
\* the current release may have been set back to '' behind the confirmation
SubmitInit ==
    /\ user \in Users \cup {NoUser}
    /\ requests = <<>>
    /\ viewId = 0
    /\ DetailUnmounted
    /\ cancelPc = "idle"
    /\ cancelId = 0
    /\ formMounted = TRUE
    /\ releases = OrderDesc({r \in ReleaseIds : ReleaseActive[r]})
    /\ fLoading = FALSE
    /\ submitting = FALSE
    /\ showConfirm \in BOOLEAN
    /\ errors = NoErrors
    /\ attachments \in SubmitFileLists
    /\ fToast = Null
    /\ \E t \in ReportTypes :
         formData \in {[FilledFormData EXCEPT !.reportType = t],
                       CurrentReleaseChange([FilledFormData EXCEPT !.reportType = t], "")}
    /\ fNavPending = {}
    /\ confirmPc = "idle"
    /\ payload = NoPayload
    /\ usedFiles = <<>>
    /\ LoopIdle
    /\ StorageEmpty
    /\ PagesClosed

SubmitNext ==
    \/ HandleSubmit
    \/ EditRequest
    \/ RemoveAttachment
    \/ HandleConfirm
    \/ ServerInsert
    \/ HandleConfirmResponse
    \/ ServerUpload
    \/ HandleUploadResponse
    \/ ServerAttachmentInsert
    \/ HandleAttachmentResponse
    \/ FormNavigate
    \/ FormCancel
    \/ HandleSignOut

\* the submission: handleConfirm from the click to the end of its attachment loop
SubmitSpec == SubmitInit /\ [][SubmitNext]_vars

\* a stored row of the given owner, title and status, as the form and the
\* collaborator leave it
SeedRow(owner, id, title, status) ==
    [NewRow([SeedPayload(owner) EXCEPT !.title = title], id) EXCEPT
        !.status = status,
        !.error_message = IF status = "Failed" THEN "Assessment failed" ELSE Null,
        !.completed_at = IF status \in TerminalStatuses THEN 1 ELSE 0]

\* the titles of the rows the listing's specifications start with: "Api", none, "DB"
ListTitles == << <<"A", "p", "i">>, <<>>, <<"D", "B">> >>

\* three requests in any status are stored, the last one of any owner, and the
\* signed-in user opens the listing
ListInit ==
    /\ user = "u1"
    /\ \E s1 \in StatusValues, s2 \in StatusValues, s3 \in StatusValues, o3 \in Users :
         requests = <<SeedRow("u1", 1, ListTitles[1], s1),
                      SeedRow("u1", 2, ListTitles[2], s2),
                      SeedRow(o3, 3, ListTitles[3], s3)>>
    /\ viewId = 0
    /\ DetailUnmounted
    /\ cancelPc = "idle"
    /\ cancelId = 0
    /\ FormUnmounted
    /\ confirmPc = "idle"
    /\ payload = NoPayload
    /\ usedFiles = <<>>
    /\ LoopIdle
    /\ StorageEmpty
    /\ DashboardMounted
    /\ ResultsUnmounted
    /\ NoResultRows
    /\ SessionOpen

ListNext ==
    \/ \E i \in DOMAIN dFetches :
         \/ DashReleasesResponse(i)
         \/ DashRequestsRead(i)
         \/ DashRequestsResponse(i)
    \/ DashSubscribeJoined
    \/ SetSearchTerm
    \/ SetStatusFilter
    \/ DashboardLeave

\* the listing over a store that does not change: its fetch, search and filter
ListSpec == ListInit /\ [][ListNext]_vars

\* the row a submission titled "DB" hands to insert()
ListPayload == [InsertPayload("u1", FilledFormData) EXCEPT !.title = ListTitles[3]]

\* one request is stored and the signed-in user opens the listing; they may have
\* come from the form by its Cancel button right after "Submit Request", with
\* the insert still on its way
DashInit ==
    /\ user = "u1"
    /\ \E owner \in Users : requests = <<SeedRow(owner, 1, ListTitles[1], "Queued")>>
    /\ viewId = 0
    /\ DetailUnmounted
    /\ cancelPc = "idle"
    /\ cancelId = 0
    /\ FormUnmounted
    /\ \/ /\ confirmPc = "idle"
          /\ payload = NoPayload
          /\ calls = <<>>
       \/ /\ confirmPc = "insertSent"
          /\ payload = ListPayload
          /\ calls = <<InsertRequestCall>>
    /\ usedFiles = <<>>
    /\ newId = 0
    /\ fileIdx = 0
    /\ StorageEmpty
    /\ DashboardMounted
    /\ ResultsUnmounted
    /\ NoResultRows
    /\ SessionOpen

DashNext ==
    \/ Collaborator
    \/ ServerInsert
    \/ HandleConfirmResponse
    \/ FormNavigate
    \/ \E i \in DOMAIN dFetches :
         \/ DashReleasesResponse(i)
         \/ DashRequestsRead(i)
         \/ DashRequestsResponse(i)
    \/ DashSubscribeJoined
    \/ DashEventDeliver
    \/ DashboardLeave

\* the listing while the store changes under it
DashSpec == DashInit /\ [][DashNext]_vars

\* two Queued requests of the signed-in user are stored and the listing is opened
ViewsInit ==
    /\ user = "u1"
    /\ requests = <<SeedRow("u1", 1, ListTitles[1], "Queued"),
                    SeedRow("u1", 2, ListTitles[2], "Queued")>>
    /\ viewId = 0
    /\ DetailUnmounted
    /\ cancelPc = "idle"
    /\ cancelId = 0
    /\ FormUnmounted
    /\ confirmPc = "idle"
    /\ payload = NoPayload
    /\ usedFiles = <<>>
    /\ LoopIdle
    /\ StorageEmpty
    /\ DashboardMounted
    /\ ResultsUnmounted
    /\ NoResultRows
    /\ SessionOpen

ViewsNext ==
    \/ Collaborator
    \/ \E i \in DOMAIN dFetches :
         \/ DashReleasesResponse(i)
         \/ DashRequestsRead(i)
         \/ DashRequestsResponse(i)
    \/ DashSubscribeJoined
    \/ DashEventDeliver
    \/ DashOpenRequest
    \/ FetchRequestRead
    \/ FetchRequestResponse
    \/ FetchReleasesResponse
    \/ FetchAttachmentsResponse
    \/ SubscribeJoined
    \/ NotifDeliver
    \/ DetailRouteChange
    \/ DetailLeave
    \/ AppTeardown

\* the listing and the detail view as the user moves between them
ViewsSpec == ViewsInit /\ [][ViewsNext]_vars

\* requests 1 and 2 of the signed-in user are Completed and have their result,
\* request 3 is Running; the user opens the results of request 1
ResultsInit ==
    /\ user = "u1"
    /\ requests = <<SeedRow("u1", 1, ListTitles[1], "Completed"),
                    SeedRow("u1", 2, ListTitles[2], "Completed"),
                    SeedRow("u1", 3, ListTitles[3], "Running")>>
    /\ viewId = 0
    /\ DetailUnmounted
    /\ cancelPc = "idle"
    /\ cancelId = 0
    /\ FormUnmounted
    /\ confirmPc = "idle"
    /\ payload = NoPayload
    /\ usedFiles = <<>>
    /\ LoopIdle
    /\ StorageEmpty
    /\ DashboardUnmounted
    /\ resultRows = <<SeedResult(1), SeedResult(2)>>
    /\ locale = "en-US"
    /\ ResultsMounted(1)
    /\ SessionOpen

ResultsNext ==
    \/ \E i \in DOMAIN rFetches :
         \/ ResultsRequestResponse(i)
         \/ ResultsResultsResponse(i)
         \/ ResultsReleasesResponse(i)
    \/ ResultsRouteChange

\* the results view, its fetches and changes of its route id
ResultsSpec == ResultsInit /\ [][ResultsNext]_vars

\* the columns of the results this specification draws from
ExportFindings == {<<>>, <<JStr("Endpoint removed")>>}
ExportApiChanges ==
    {JNull, JArr(<<>>),
     JArr(<< JObj(<< <<"endpoint", JStr("/v1/orders")>>, <<"method", JStr("GET")>>,
                     <<"change_type", JStr("Modified")>>,
                     <<"summary", JStr("New field")>> >>) >>)}
ExportDatabaseChanges ==
    {JNull,
     JArr(<< JObj(<< <<"table_name", JStr("orders")>>,
                     <<"change_type", JStr("Added")>>,
                     <<"summary", JStr("New table")>> >>) >>)}
ExportRawData ==
    {JObj(<<>>),
     JObj(<< <<"tool", JStr("scan")>>, <<"files", JArr(<<JNum(4, 0), JNull>>)>> >>),
     JObj(<< <<"score", JNum(1, 400)>> >>)}
ExportGeneratedAt ==
    {SeedGeneratedAt,
     <<"2026", "-", "03", "-", "15", "T", "09", ":", "05", ":", "00", "+00:00">>}

\* request 1 of the signed-in user is Completed and has a result; the user opens
\* its results in some environment
ExportInit ==
    /\ user = "u1"
    /\ requests = <<SeedRow("u1", 1, ListTitles[1], "Completed")>>
    /\ viewId = 0
    /\ DetailUnmounted
    /\ cancelPc = "idle"
    /\ cancelId = 0
    /\ FormUnmounted
    /\ confirmPc = "idle"
    /\ payload = NoPayload
    /\ usedFiles = <<>>
    /\ LoopIdle
    /\ StorageEmpty
    /\ DashboardUnmounted
    /\ \E findings \in ExportFindings, api \in ExportApiChanges,
          db \in ExportDatabaseChanges, raw \in ExportRawData,
          at \in ExportGeneratedAt :
         resultRows = <<ResultRow(1, findings, api, db, raw, at)>>
    /\ locale \in Locales
    /\ ResultsMounted(1)
    /\ SessionOpen

ExportNext ==
    \/ \E i \in DOMAIN rFetches :
         \/ ResultsRequestResponse(i)
         \/ ResultsResultsResponse(i)
         \/ ResultsReleasesResponse(i)
    \/ \E format \in DownloadFormats : HandleDownload(format)
    \/ ResultsToastExpire

\* the results view from its fetch to the downloads of the report
ExportSpec == ExportInit /\ [][ExportNext]_vars

\* the application is opened on /login, with or without a stored session
AuthInit ==
    /\ session \in {NoUser, "u1"}
    /\ requests = <<>>
    /\ viewId = 0
    /\ DetailUnmounted
    /\ cancelPc = "idle"
    /\ cancelId = 0
    /\ FormUnmounted
    /\ confirmPc = "idle"
    /\ payload = NoPayload
    /\ usedFiles = <<>>
    /\ LoopIdle
    /\ StorageEmpty
    /\ DashboardUnmounted
    /\ ResultsUnmounted
    /\ NoResultRows
    /\ AuthProviderMounted
    /\ channels = <<AuthChannel>>
    /\ access = NoAccess
    /\ loginMounted = TRUE
    /\ email = ""
    /\ password = <<>>
    /\ confirmPassword = <<>>
    /\ loginError = ""
    /\ loginLoading = FALSE
    /\ isSignup = FALSE
    /\ loginPc = "idle"

AuthNext ==
    \/ GetSessionRead
    \/ GetSessionResponse
    \/ ExternalSessionChange
    \/ AuthEventDeliver
    \/ SignOutRequest
    \/ SignOutBackend
    \/ SignOutReturns
    \/ SetEmail
    \/ SetPassword
    \/ SetConfirmPassword
    \/ ToggleSignup
    \/ LoginHandleSubmit
    \/ LoginBackend
    \/ LoginSignUpResponse
    \/ LoginSignInResponse

\* the AuthProvider, the login form and the Layout's sign-out
AuthSpec == AuthInit /\ [][AuthNext]_vars

(***************************************************************************)
(* Row-level security: the policies of the four tables.  A table operation *)
(* with no policy is denied; every policy is TO authenticated.             *)
(***************************************************************************)
\* EXISTS (SELECT 1 FROM assessment_requests WHERE id = <request_id> AND
\* user_id = auth.uid())
OwnsRequest(uid, requestId) ==
    \E i \in DOMAIN requests : requests[i].id = requestId /\ requests[i].user_id = uid

\* a select policy on attachments that lets every authenticated user read
AttachmentSelectPolicyAnyone(uid, a) == uid # NoUser

\* "Users can read attachments on their requests"
AttachmentSelectPolicy(uid, a) == OwnsRequest(uid, a.request_id)

\* "Users can delete attachments on their requests"
AttachmentDeletePolicy(uid, a) == OwnsRequest(uid, a.request_id)

\* "Authenticated users can read active releases": USING (is_active = true)
ReleaseSelectPolicy(uid, rel) == ReleaseActive[rel]

\* the user_id of the request a row belongs to; a release belongs to no request
RowOwner(table, row) ==
    CASE table = "assessment_requests" -> row.user_id
      [] table = "attachments" ->
           IF \E i \in DOMAIN requests : requests[i].id = row.request_id
           THEN requests[CHOOSE i \in DOMAIN requests :
                            requests[i].id = row.request_id].user_id
           ELSE "no request"
      [] table = "assessment_results" ->
           IF \E i \in DOMAIN requests :
                 JStr(IdText(requests[i].id)) = Field(row, "request_id")
           THEN requests[CHOOSE i \in DOMAIN requests :
                            JStr(IdText(requests[i].id)) = Field(row, "request_id")].user_id
           ELSE "no request"
      [] OTHER -> "no request"

TableOps == {"select", "insert", "update", "delete"}

\* does row-level security let this caller do op on the row
Permitted(uid, table, op, row) ==
    /\ uid # NoUser
    /\ CASE table = "assessment_requests" /\ op = "select" -> SelectPolicy(uid, row)
         [] table = "assessment_requests" /\ op = "insert" -> InsertPolicy(uid, row)
         [] table = "assessment_requests" /\ op = "update" -> UpdatePolicy(uid, row)
         [] table = "attachments" /\ op = "select" -> AttachmentSelectPolicy(uid, row)
         [] table = "attachments" /\ op = "insert" -> AttachmentInsertPolicy(uid, row)
         [] table = "attachments" /\ op = "delete" -> AttachmentDeletePolicy(uid, row)
         [] table = "assessment_results" /\ op = "select" -> ResultSelectPolicy(uid, row)
         [] table = "releases" /\ op = "select" -> ReleaseSelectPolicy(uid, row)
         [] OTHER -> FALSE

\* the rows of a table an operation can name: the stored rows, and for an insert
\* the rows a caller could send
RowsOf(table, op) ==
    CASE table = "assessment_requests" ->
           IF op = "insert"
           THEN {NewRow(SeedPayload(u), Len(requests) + 1) : u \in Users}
           ELSE Range(requests)
      [] table = "attachments" ->
           IF op = "insert"
           THEN {AttachmentPayload(u, requests[i].id, SmallText) :
                    u \in Users, i \in DOMAIN requests}
           ELSE Range(attRows)
      [] table = "assessment_results" ->
           IF op = "insert"
           THEN {SeedResult(requests[i].id) : i \in DOMAIN requests}
           ELSE Range(resultRows)
      [] OTHER -> ReleaseIds

\* the signed-in caller sends one operation on one row to the backend
RowAccess ==
    /\ \E table \in {"assessment_requests", "attachments", "assessment_results",
                     "releases"}, op \in TableOps :
         \E row \in RowsOf(table, op) :
           access' = [table |-> table, op |-> op, caller |-> user,
                      owner |-> RowOwner(table, row),
                      permitted |-> Permitted(user, table, op, row)]
    /\ UNCHANGED <<requests, user, detailVars, formVars, loopVars, dashVars,
                   resultsVars, authMounted, channels, authVars, loginVars>>

\* two requests are stored, each with an attachment and a result; the second
\* one belongs to either user; the caller is either user or is not signed in
PolicyInit ==
    /\ user \in Users \cup {NoUser}
    /\ \E owner \in Users :
         requests = <<SeedRow("u1", 1, 0, "Completed"),
                      SeedRow(owner, 2, 0, "Completed")>>
    /\ attRows = <<NewAttachmentRow(AttachmentPayload("u1", 1, SmallText), 1),
                   NewAttachmentRow(AttachmentPayload(requests[2].user_id, 2, SmallText), 2)>>
    /\ blobs = {attRows[1].file_path, attRows[2].file_path}
    /\ resultRows = <<SeedResult(1), SeedResult(2)>>
    /\ locale = "en-US"
    /\ viewId = 0
    /\ DetailUnmounted
    /\ cancelPc = "idle"
    /\ cancelId = 0
    /\ FormUnmounted
    /\ confirmPc = "idle"
    /\ payload = NoPayload
    /\ usedFiles = <<>>
    /\ LoopIdle
    /\ DashboardUnmounted
    /\ ResultsUnmounted
    /\ SessionOpen

PolicyNext == RowAccess

\* the decisions of the row-level policies for every caller, table and operation
PolicySpec == PolicyInit /\ [][PolicyNext]_vars

\* the form with any set of releases loaded and nothing selected yet
SelectInit ==
    /\ user = "u1"
    /\ requests = <<>>
    /\ viewId = 0
    /\ DetailUnmounted
    /\ cancelPc = "idle"
    /\ cancelId = 0
    /\ formMounted = TRUE
    /\ \E S \in SUBSET ReleaseIds : releases = OrderDesc(S)
    /\ fLoading = FALSE
    /\ submitting = FALSE
    /\ showConfirm = FALSE
    /\ errors = NoErrors
    /\ attachments = <<>>
    /\ fToast = Null
    /\ formData = InitialFormData
    /\ fNavPending = {}
    /\ confirmPc = "idle"
    /\ payload = NoPayload
    /\ usedFiles = <<>>
    /\ LoopIdle
    /\ StorageEmpty
    /\ PagesClosed

SelectNext ==
    \/ SetReportType
    \/ SetCurrentRelease
    \/ SetTargetRelease
    \/ HandleSubmit
    \/ EditRequest

\* the two release selects, driven in any order, with Review and Edit
SelectSpec == SelectInit /\ [][SelectNext]_vars

PickNext ==
    \/ \E files \in FileLists : HandleFileChange(files)
    \/ RemoveAttachment

\* the file input alone: any files are chosen and removed, nothing is submitted
PickSpec == FilesInit /\ [][PickNext]_vars

(***************************************************************************)
(* Properties                                                              *)
(***************************************************************************)
LifecycleEdges == {<<"Queued", "Running">>, <<"Running", "Completed">>,
                   <<"Running", "Failed">>, <<"Queued", "Failed">>}

\* C1: in the request store a row's status changes only along Queued->Running,
\* Running->Completed, Running->Failed and Queued->Failed, so a Completed or
\* Failed row never changes status again, whatever the collaborator and the
\* owner's cancellations do.
C1_StatusFollowsLifecycle ==
    [][\A i \in DOMAIN requests :
          requests'[i].status # requests[i].status
              => <<requests[i].status, requests'[i].status>> \in LifecycleEdges]_vars

\* C2: a cancellation confirmed in the detail view leaves a row that is already
\* Completed or Failed when the update runs with its status and error_message.
C2_CancelRejectedOnceTerminal ==
    [][(ServerCancelUpdate /\ cancelId \in DOMAIN requests
            /\ requests[cancelId].status \in TerminalStatuses)
          => /\ requests'[cancelId].status = requests[cancelId].status
             /\ requests'[cancelId].error_message = requests[cancelId].error_message]_vars

\* C3: whenever the detail view shows a request, a control that cancels it (the
\* Cancel button or the modal's "Cancel Request" button) is rendered exactly
\* when the displayed status is Queued or Running.
C3_CancelAffordanceIffActive ==
    MainRender =>
        ((CancelButtonRendered \/ CancelModalRendered)
            <=> request.status \in ActiveStatuses)

\* the fields of a row a cancellation may write
CancelWrites == {"status", "error_message"}

\* C4: a successful cancellation of a Queued or Running request leaves the row
\* Failed with error_message "Canceled by user" and every other field as it was;
\* a cancellation never writes another field or another row; one whose update
\* fails leaves the store unchanged and arms no navigation.
C4_CancelFrame ==
    [][/\ ServerCancelUpdate =>
            \A i \in DOMAIN requests :
                /\ \A f \in (DOMAIN requests[i]) \ CancelWrites :
                       requests'[i][f] = requests[i][f]
                /\ i # cancelId => requests'[i] = requests[i]
       /\ (ServerCancelUpdate /\ cancelPc' = "ok"
              /\ requests[cancelId].status \in ActiveStatuses)
            => /\ requests'[cancelId].status = "Failed"
               /\ requests'[cancelId].error_message = "Canceled by user"
       /\ (ServerCancelUpdate /\ cancelPc' = "err") => requests' = requests
       /\ (HandleCancelResponse /\ cancelPc = "err")
            => /\ navPending' = navPending
               /\ mounted' = mounted
               /\ toast' = "Failed to cancel request"]_vars

\* C4 witness: the update of a cancellation has run on a request that was still
\* Queued or Running (no completion stamp) and the handler is about to resume.
C4_Witness ==
    /\ cancelPc = "ok"
    /\ requests[cancelId].status = "Failed"
    /\ requests[cancelId].error_message = "Canceled by user"
    /\ requests[cancelId].completed_at = 0

\* nothing is travelling to the detail view any more
DetailQuiescent ==
    /\ mounted
    /\ fetchPc = "done"
    /\ error = ""
    /\ subState = "active"
    /\ notifs = <<>>
    /\ cancelPc = "idle"

\* C5: once the fetch has completed, the channel is joined and every UPDATE
\* notification has been delivered, the request held by the detail view is the
\* row of the store.
C5_ViewShowsAuthoritativeRow == DetailQuiescent => request = requests[viewId]

\* C6: the status displayed by the detail view never moves backwards along
\* Queued -> Running -> {Completed, Failed}.
C6_DisplayedStatusNeverGoesBack ==
    [][(MainRender /\ MainRender')
          => StatusRank(request'.status) >= StatusRank(request.status)]_vars

\* the validation rules on the fields of the form, read off a stored row
RowSatisfiesRules(r) ==
    /\ r.report_type \in {"API", "Database", "API + Database"}
    /\ r.current_release_id # ""
    /\ r.target_release_id # ""
    /\ StrLess(ReleaseVersion[r.current_release_id], ReleaseVersion[r.target_release_id])
    /\ r.title <= 100
    /\ r.description <= 1000

\* C7: every request row the form has inserted was built from a form state that
\* satisfies the validation rules on report type, releases, release order, title
\* and description, whatever edits happened between Review and Submit.
C7_InsertedRowsSatisfyRules ==
    \A i \in DOMAIN requests : RowSatisfiesRules(requests[i])

\* C7 witness: a row has been inserted, with a title and a description at their
\* maximum length.
C7_Witness ==
    \E i \in DOMAIN requests :
        /\ requests[i].status = "Queued"
        /\ requests[i].title = 100
        /\ requests[i].description = 1000

OrderingError == "Target release must be newer than current release"

\* C8: validation leaves the target-release ordering error exactly when both
\* releases are selected and the target's version label does not sort strictly
\* after the current one's ("EB21" with target "EB20" fails, equal versions fail,
\* "EB20" -> "EB21" passes); with that error the confirmation does not open.
C8_OrderingErrorIffNotNewer ==
    [][HandleSubmit =>
          /\ (errors'.targetReleaseId = OrderingError)
                <=> /\ formData.currentReleaseId # ""
                    /\ formData.targetReleaseId # ""
                    /\ ~StrLess(ReleaseVersion[formData.currentReleaseId],
                                ReleaseVersion[formData.targetReleaseId])
          /\ (formData.currentReleaseId = "r2" /\ formData.targetReleaseId = "r1")
                => errors'.targetReleaseId = OrderingError
          /\ (formData.currentReleaseId = "r1" /\ formData.targetReleaseId = "r2")
                => errors'.targetReleaseId = ""
          /\ errors'.targetReleaseId = OrderingError => showConfirm' = showConfirm]_vars

\* C8 witness: validation has run on current "EB21" and target "EB20", left the
\* ordering error and did not open the confirmation.
C8_Witness ==
    /\ formData.currentReleaseId = "r2"
    /\ formData.targetReleaseId = "r1"
    /\ errors.targetReleaseId = OrderingError
    /\ ~showConfirm

WithinAttachmentLimits(q) == Len(q) <= 5 /\ SumSizes(q) <= 52428800

\* C9: the attachments handleConfirm submits are at most 5 files of at most 50MB
\* together, for every sequence of additions, removals, Review, Edit and Submit;
\* and validation rejects a set over either limit with an attachments error.
C9_SubmittedAttachmentsWithinLimits ==
    [][/\ (HandleConfirm /\ confirmPc' = "insertSent") => WithinAttachmentLimits(usedFiles')
       /\ (HandleSubmit /\ ~WithinAttachmentLimits(attachments))
            => errors'.attachments # "" /\ showConfirm' = showConfirm]_vars

\* the files of a change event that the claim accepts: at most 10MB, allowed type
Accepted(files) ==
    SelectSeq(files, LAMBDA f :
        /\ f.size <= 10485760
        /\ f.type \in {"application/pdf", "text/plain", "text/markdown",
                       "application/json", "application/xml", "text/xml"})

\* C10: a change event appends to the accepted attachments exactly its files of at
\* most 10MB with an allowed MIME type, in order, keeps the files accepted before,
\* and leaves an attachments error exactly when one of its files was dropped.
C10_FileAcceptance ==
    [][\A files \in FileLists :
          HandleFileChange(files) =>
              /\ attachments' = attachments \o Accepted(files)
              /\ (errors'.attachments # "") <=> (Len(Accepted(files)) < Len(files))]_vars

\* C10 witness: a 10MB PDF was accepted after a text file, and the last change
\* event dropped a file.
C10_Witness ==
    /\ Len(attachments) >= 2
    /\ attachments[1] = SmallText
    /\ attachments[Len(attachments)] = PdfAtLimit
    /\ errors.attachments # ""

\* the calls a run of handleConfirm on files q makes after the insert of request
\* id owned by uid, as the claim orders them: per file, the upload to
\* {owner_id}/{request_id}/{original_filename}, then the attachment row
RECURSIVE ExpectedCalls(_, _, _)
ExpectedCalls(uid, id, q) ==
    IF q = <<>> THEN <<>>
    ELSE <<[op |-> "upload", path |-> <<uid, id, Head(q).name>>],
           [op |-> "insertAttachment",
            row |-> [request_id |-> id, filename |-> Head(q).name,
                     file_path |-> <<uid, id, Head(q).name>>,
                     file_size |-> Head(q).size, file_type |-> Head(q).type]]>>
         \o ExpectedCalls(uid, id, Tail(q))

IsPrefix(p, q) == Len(p) <= Len(q) /\ SubSeq(q, 1, Len(p)) = p

\* the calls of the running handleConfirm are in the claimed order
CallsInOrder ==
    confirmPc # "idle" =>
        /\ Len(calls) >= 1
        /\ calls[1] = [op |-> "insertRequest"]
        /\ confirmPc \in {"insertSent", "insertErr"} => Len(calls) = 1
        /\ Len(calls) > 1 =>
              /\ newId \in DOMAIN requests
              /\ requests[newId].id = newId
              /\ IsPrefix(Tail(calls),
                          ExpectedCalls(requests[newId].user_id, newId, usedFiles))

\* C11: a run of handleConfirm inserts one request row first; it uploads nothing
\* and inserts no attachment row when that insert failed; then, file by file in
\* order, the upload to {owner_id}/{request_id}/{original_filename} comes before
\* the insert of that file's attachment row, whose request_id is the new
\* request's id.
C11_ConfirmStepsInOrder ==
    [][/\ CallsInOrder'
       /\ (confirmPc \notin {"idle", "insertSent"}) => requests' = requests
       /\ (HandleConfirmResponse /\ confirmPc = "insertErr")
            => confirmPc' = "idle" /\ blobs' = blobs /\ attRows' = attRows
       /\ blobs' # blobs =>
            /\ calls[Len(calls)].op = "upload"
            /\ blobs' = blobs \cup {calls[Len(calls)].path}
       /\ attRows' # attRows =>
            /\ calls[Len(calls)].op = "insertAttachment"
            /\ Len(attRows') = Len(attRows) + 1
            /\ attRows'[Len(attRows')].request_id = newId
            /\ attRows'[Len(attRows')].file_path = calls[Len(calls) - 1].path
            /\ SubSeq(attRows', 1, Len(attRows)) = attRows]_vars

\* C11 witness: the second file's attachment row is being inserted, after its
\* upload and after the first file's upload and row.
C11_Witness ==
    /\ confirmPc = "attachSent"
    /\ fileIdx = 2
    /\ Len(calls) = 5
    /\ usedFiles[1].name # usedFiles[2].name
    /\ Cardinality(blobs) = 2
    /\ Len(attRows) = 1

\* C12: every request row the form creates is Queued when created and carries
\* the identity authenticated at that moment as user_id, whatever the form holds;
\* without an authenticated identity handleConfirm makes no call and no row is
\* inserted.
C12_CreatedRowsQueuedAndOwned ==
    [][/\ Len(requests') >= Len(requests)
       /\ Len(requests') > Len(requests) =>
            /\ Len(requests') = Len(requests) + 1
            /\ requests'[Len(requests')].status = "Queued"
            /\ user # NoUser
            /\ requests'[Len(requests')].user_id = user
       /\ (HandleConfirm /\ user = NoUser) =>
            /\ confirmPc' = "idle"
            /\ calls' = <<>>
            /\ submitting' = FALSE]_vars

\* C12 witness: the insert of a request filled in as "API + Database" has just
\* succeeded for the signed-in user.
C12_Witness ==
    /\ confirmPc = "inserted"
    /\ user # NoUser
    /\ requests[newId].status = "Queued"
    /\ requests[newId].user_id = user
    /\ requests[newId].report_type = "API + Database"

\* C13: once the request row exists, a failing upload or attachment insert
\* removes nothing that was written and is not tried again, and the run still
\* ends as a submission: the success message and the navigation to the new
\* request, whether the failure came back as an error value or was raised.
C13_AttachmentFailureStillSubmitted ==
    [][/\ IsPrefix(requests, requests')
       /\ blobs \subseteq blobs'
       /\ IsPrefix(attRows, attRows')
       /\ (confirmPc # "idle" /\ confirmPc' # "idle") =>
            /\ IsPrefix(calls, calls')
            /\ fileIdx' >= fileIdx
       /\ ((HandleUploadResponse \/ HandleAttachmentResponse) /\ confirmPc' = "idle") =>
            /\ newId \in DOMAIN requests'
            /\ newId \in fNavPending'
            /\ formMounted => fToast' = "success"]_vars

\* the rows the listing shows
Shown == FilteredRequests(dRequests, searchTerm, statusFilter)

\* the search text is how the id starts
IdStartsWith(id, term) == IsPrefix(term, IdText(id))

\* the search text occurs in the title, letter case aside
TitleContains(title, term) ==
    /\ title # <<>>
    /\ \E k \in 0..(Len(title) - Len(term)) :
         ToLowerCase(SubSeq(title, k + 1, k + Len(term))) = ToLowerCase(term)

\* C14: the listing shows a fetched request exactly when (the search text is a
\* prefix of its id or occurs in its title) and (the status filter is 'all' or is
\* its status); the shown requests are in the fetched order, newest first.
C14_ListingFilter ==
    (dMounted /\ ~dLoading) =>
        /\ \A i \in DOMAIN dRequests :
              (\E j \in DOMAIN Shown : Shown[j] = dRequests[i])
                 <=> /\ \/ IdStartsWith(dRequests[i].id, searchTerm)
                        \/ TitleContains(dRequests[i].title, searchTerm)
                     /\ statusFilter \in {"all", dRequests[i].status}
        /\ \A j \in DOMAIN Shown :
              j > 1 => Shown[j - 1].created_at > Shown[j].created_at

\* nothing is travelling to the listing any more: its channel is joined, every
\* change event has been delivered and every fetchData() has finished, the last
\* one without an error
DashQuiescent ==
    /\ dMounted
    /\ dSubState = "active"
    /\ dEvents = 0
    /\ dFetches = <<>>
    /\ dError = ""

\* C15: once the change events have stopped and every fetch they triggered has
\* completed, the requests held by the listing are the rows of the store the
\* user may read, newest first, in whatever order the responses arrived.
C15_ListingConverges == DashQuiescent => dRequests = VisibleRequests(user)

\* the open subscriptions of a view
ChannelsOf(v) == SelectSeq(channels, LAMBDA c : c.view = v)

\* C16: the listing, the detail view and the AuthProvider each hold one open
\* subscription while mounted and none otherwise; the detail view's one is for
\* its current route id, and so is every update waiting for its callback; a view
\* that is gone has no event waiting for a callback.
C16_NoDanglingSubscriptions ==
    /\ Len(ChannelsOf("detail")) = IF mounted THEN 1 ELSE 0
    /\ Len(ChannelsOf("listing")) = IF dMounted THEN 1 ELSE 0
    /\ Len(ChannelsOf("auth")) = IF authMounted THEN 1 ELSE 0
    /\ mounted => ChannelsOf("detail")[1].scope = viewId
    /\ \A k \in DOMAIN notifs : notifs[k].id = viewId
    /\ ~mounted => subState = "none" /\ notifs = <<>>
    /\ ~dMounted => dSubState = "none" /\ dEvents = 0

\* C16 witness: the route id has just changed from request 1, still held, to
\* request 2, whose channel is the one open; or the detail view was left for the
\* listing with an update of the request it showed still to come.
C16_Witness ==
    /\ mounted
    /\ request.id = 1
    /\ viewId = 2
    /\ subState = "active"
    /\ channels = <<AuthChannel, DetailChannel(2)>>
    /\ requests[1].status = "Queued"

\* the results the backend holds for this route id, as the client receives them
FetchedResultsFor(id) ==
    {JSONParse(ResponseBody(ResultsOf(user, id)[k])) :
        k \in DOMAIN ResultsOf(user, id)}

\* C17: the report on screen shows a result fetched for the route's request id;
\* once no fetch is running the view is not loading, and it shows 'Results not
\* available' when the route's request has no result.
C17_ResultsOnlyForRouteId ==
    /\ (rMounted /\ ResultsRender = "report") => rResults \in FetchedResultsFor(rId)
    /\ (rMounted /\ rFetches = <<>>) =>
          /\ ResultsRender # "loading"
          /\ FetchedResultsFor(rId) = {} => ResultsRender = "not available"

\* C18: the file of a 'pdf' download is the file a 'json' download of the same
\* result gives: named assessment-<first 8 characters of the id>.json and holding
\* the result written by JSON.stringify with two spaces.
C18_PdfIsJson ==
    download.format = "pdf" =>
        /\ download.filename =
              <<"a", "s", "s", "e", "s", "s", "m", "e", "n", "t", "-">>
              \o SubSeq(IdText(rId), 1, 8) \o <<".", "j", "s", "o", "n">>
        /\ download.content = JSONStringify(rResults, 2, 0)
        /\ download.filename = DownloadFile("json", rResults, rRequest, locale).filename
        /\ download.content = DownloadFile("json", rResults, rRequest, locale).content

\* C18 witness: a 'pdf' download of a result with an API change has been made.
C18_Witness ==
    /\ download.format = "pdf"
    /\ NonEmptyArray(Field(rResults, "api_changes"))
    /\ rToast = "Report downloaded successfully"

\* C19: the content of a JSON download, parsed, is the result it was made from.
C19_JsonRoundTrip ==
    download.format = "json" => JSONParse(download.content) = rResults

\* the headings of the sections of a document, in the order they appear
SectionsOf(doc) ==
    SelectSeq(doc, LAMBDA line :
        line # <<>> /\ line[1] \in {Txt("## Summary"), Txt("## Key Findings"),
                                    Txt("## API Changes"), Txt("## Database Changes")})

SectionRank(line) ==
    CASE line[1] = Txt("## Summary") -> 1
      [] line[1] = Txt("## Key Findings") -> 2
      [] line[1] = Txt("## API Changes") -> 3
      [] line[1] = Txt("## Database Changes") -> 4

\* C20: the Markdown of a download is the same in every environment, its
\* Generated line holds generated_at as it is stored, and its sections come in
\* the order Summary, Key Findings, API Changes, Database Changes.
C20_MarkdownDeterministic ==
    download.format = "markdown" =>
        /\ \A loc \in Locales :
              download.content = GenerateMarkdown(rResults, rRequest, loc)
        /\ download.content[5] =
              <<Txt("**Generated:** "), Chars(Field(rResults, "generated_at").s)>>
        /\ LET sections == SectionsOf(download.content)
           IN /\ sections # <<>>
              /\ sections[1] = <<Txt("## Summary")>>
              /\ \A i, j \in DOMAIN sections :
                    i < j => SectionRank(sections[i]) < SectionRank(sections[j])

\* C21: when signOut() has returned or thrown inside handleSignOut, the user the
\* AuthProvider exposes is unauthenticated.
C21_SignOutClearsSession ==
    [][(signOutPc \in {"removed", "failed"} /\ signOutPc' = "idle") => user' = NoUser]_vars

\* C22: once getSession() has answered and every announced session state has
\* reached the callback, the exposed user is the user of the client's session
\* and loading is false.
C22_SessionConverges ==
    (authMounted /\ getSessionPc.pc = "done" /\ authEvents = <<>>) =>
        /\ user = session
        /\ ~authLoading

\* C23: when a backend call of handleConfirm has failed, the step of
\* handleConfirm that receives the failure shows the error toast on the form.
C23_FailuresShown ==
    [][(/\ confirmPc \in {"insertErr", "uploadFailed", "uploadThrown", "attachFailed",
                          "attachThrown"}
        /\ confirmPc' # confirmPc
        /\ formMounted) => fToast' = "error"]_vars

\* C26: every attachment row names a path of the bucket that holds an uploaded
\* object, and two attachment rows of one request have different paths.
C26_AttachmentRowsNameBlobs ==
    /\ \A k \in DOMAIN attRows : attRows[k].file_path \in blobs
    /\ \A j, k \in DOMAIN attRows :
          (j # k /\ attRows[j].request_id = attRows[k].request_id)
              => attRows[j].file_path # attRows[k].file_path

\* C24 as amended: a row of assessment_requests, attachments or
\* assessment_results is read or written only by the owner of its request, and
\* nothing but reading is permitted on releases.
C24_PoliciesRequireOwnership ==
    (access # NoAccess /\ access.permitted) =>
        /\ access.caller # NoUser
        /\ IF access.table = "releases"
           THEN access.op = "select"
           ELSE access.owner = access.caller

\* C24 witness: a caller was refused an operation on a row of another user's
\* request.
C24_Witness ==
    /\ access # NoAccess
    /\ access.table = "attachments"
    /\ access.op = "select"
    /\ access.caller = "u1"
    /\ access.owner = "u2"
    /\ ~access.permitted

\* C24 as stated: every permitted operation, on any table, is one on a row whose
\* request belongs to the caller.
C24_EveryPolicyRequiresOwnership ==
    (access # NoAccess /\ access.permitted) => access.owner = access.caller


\* the result rows stored for request id
StoredResultsOf(id) ==
    SelectSeq(resultRows, LAMBDA r : Field(r, "request_id") = JStr(IdText(id)))

\* C25: in every state of the store a request that has a result row has status
\* Completed: the collaborator writes the row in the step that completes the
\* request, and no later operation, a cancellation from a stale view included,
\* gives the request another status.
C25_ResultImpliesCompleted ==
    \A i \in DOMAIN requests :
        StoredResultsOf(requests[i].id) # <<>> => requests[i].status = "Completed"


\* C28: whenever the login form is on screen and no run of handleSubmit is
\* under way (the run returned on a validation error, a failed sign-in, a
\* failed or a successful sign-up), loading is false, so the inputs and the
\* submit button are enabled again.
C28_LoginLoadingReset ==
    (loginMounted /\ loginPc = "idle") => ~loginLoading

\* a failed sign-in shows the inline error and stays on the login page
C28_SignInFailureShown ==
    [][(loginPc = "signInErr" /\ loginPc' = "idle")
          => /\ loginMounted'
             /\ ~dMounted'
             /\ ~loginLoading'
             /\ loginError' = "Invalid email or password. Please try again."]_vars


\* the 'Review Request' button takes a click: disabled={loading || submitting}
ReviewRequestEnabled == formMounted /\ ~fLoading /\ ~submitting

\* the 'Submit Request' button is rendered and takes a click:
\* {showConfirm && ...}, disabled={submitting}
SubmitRequestEnabled == formMounted /\ showConfirm /\ ~submitting

\* C27: while a confirmed submission is in flight, and from its success until
\* the delayed navigation to the new request, the form takes neither a
\* 'Review Request' nor a 'Submit Request' click, so that one confirmed
\* submission creates one request row.
C27_NoSecondSubmission ==
    (confirmPc # "idle" \/ fNavPending # {}) =>
        /\ ~ReviewRequestEnabled
        /\ ~SubmitRequestEnabled

\* the part of it that holds: nothing is accepted while the submission is in flight
C27_InFlightBlocked ==
    confirmPc # "idle" => (~ReviewRequestEnabled /\ ~SubmitRequestEnabled)

\* the form offers 'Submit Request' again while the navigation timer of the
\* submission before is armed
C27_SubmitOfferedAgain == fNavPending # {} /\ SubmitRequestEnabled


\* C30: in every state of the form a non-empty target release is a loaded
\* release whose version sorts strictly after the version of the selected
\* current release, and the options of the target select are exactly the loaded
\* releases with a strictly greater version, for every sequence of selections
\* in the two selects.
C30_TargetNewerThanCurrent ==
    formMounted =>
        /\ formData.targetReleaseId # "" =>
               /\ formData.currentReleaseId \in Range(releases)
               /\ formData.targetReleaseId \in Range(releases)
               /\ StrLess(ReleaseVersion[formData.currentReleaseId],
                          ReleaseVersion[formData.targetReleaseId])
        /\ formData.currentReleaseId # "" =>
               AvailableTargets(formData, releases)
                   = {r \in Range(releases) :
                         StrLess(ReleaseVersion[formData.currentReleaseId],
                                 ReleaseVersion[r])}

\* C30 witness: with "EB21" as current release and all four releases loaded,
\* the target "EB9" has been chosen from the options "EB25.1" and "EB9".
C30_Witness ==
    /\ formMounted
    /\ formData.currentReleaseId = "r2"
    /\ formData.targetReleaseId = "r4"
    /\ AvailableTargets(formData, releases) = {"r3", "r4"}


\* the detail view shows a request of the route's id
C29_DetailMatchesRoute == MainRender => request.id = viewId

\* C29: whenever the detail view or the results view is not loading and shows
\* a request (and a result), the id of the request shown (and the request_id of
\* the result shown) is the current route id, also when the route id changed
\* while a fetch or a pushed update for the id before was under way.
C29_DisplayedMatchesRoute ==
    /\ C29_DetailMatchesRoute
    /\ (rMounted /\ ResultsRender = "report") =>
          /\ rRequest # NoRequest => rRequest.id = rId
          /\ Field(rResults, "request_id") = JStr(IdText(rId))

====
